---- MODULE Spec2Model ----
(***************************************************************************)
(* A model of the Lisp validator: the orchestrator (scripts/validate.py),  *)
(* its dialect detector, and the four adapters it routes to                *)
(* (validate_clojure.py, validate_scheme.py, validate_common_lisp.py,      *)
(* validate_tree_sitter.py).  Python dicts are records whose DOMAIN is the *)
(* dict's key set, Python lists are sequences, Python strings are strings  *)
(* read character by character.  What an external tool does when it is     *)
(* spawned is an input of the step that spawns it.                         *)
(***************************************************************************)
EXTENDS Integers, Sequences, FiniteSets, TLC

VARIABLES
    fs,               \* the filesystem: entries in the order the OS lists them
    pc,               \* control point of the running call
    entry,            \* the function the caller entered
    target,           \* the target / file_path argument
    dialect,          \* validate's dialect variable (argument, then detected)
    use_tree_sitter,  \* validate's use_tree_sitter argument
    opt,              \* the adapter's keyword arguments
    vr,               \* the adapter's local result (validator_result once returned)
    result,           \* validate's result
    calls,            \* functions and external tools invoked by this call, in order
    spawned,          \* what each tool invoked by this call did, in order
    raised,           \* the exception that escaped the call, "" when none
    output,           \* what format_output returned
    exit_code,        \* the status main exits with, -1 while running
    d_text,           \* detector harness: the content argument
    d_out,            \* detector harness: the value returned
    earlier           \* a caller of validate: the calls it made before this one

vars == <<fs, pc, entry, target, dialect, use_tree_sitter, opt, vr, result,
          calls, spawned, raised, output, exit_code, d_text, d_out, earlier>>

-----------------------------------------------------------------------------
(* Python strings.                                                          *)

\* s[i-1], "" when there is no such character
Ch(s, i) == IF i >= 1 /\ i <= Len(s) THEN SubSeq(s, i, i) ELSE ""

\* s from position i on, every letter of `from` replaced by the letter of `to`
\* at its place
RECURSIVE MapChars(_, _, _, _)
MapChars(s, i, from, to) ==
    LET Letter(c) ==
            IF \E k \in 1..26 : Ch(from, k) = c
            THEN Ch(to, CHOOSE k \in 1..26 : Ch(from, k) = c)
            ELSE c
    IN  IF i > Len(s) THEN ""
        ELSE Letter(Ch(s, i)) \o MapChars(s, i + 1, from, to)

\* str.lower()
Lower(s) == MapChars(s, 1, "ABCDEFGHIJKLMNOPQRSTUVWXYZ", "abcdefghijklmnopqrstuvwxyz")

\* str.upper()
Upper(s) == MapChars(s, 1, "abcdefghijklmnopqrstuvwxyz", "ABCDEFGHIJKLMNOPQRSTUVWXYZ")

\* s[i-1:] in Python terms: the text from position i (1-based) on
From(s, i) == SubSeq(s, i, Len(s))

\* s.startswith(lit, i-1)
StartsAt(s, i, lit) ==
    /\ i >= 1
    /\ i + Len(lit) - 1 <= Len(s)
    /\ SubSeq(s, i, i + Len(lit) - 1) = lit

\* lit in s
Contains(s, lit) == \E i \in 1..(Len(s) + 1) : StartsAt(s, i, lit)

\* the least element of a set of numbers, 0 for the empty set
MinOr0(S) == IF S = {} THEN 0 ELSE CHOOSE x \in S : \A y \in S : x <= y

\* the greatest element of a set of numbers, 0 for the empty set
MaxOr0(S) == IF S = {} THEN 0 ELSE CHOOSE x \in S : \A y \in S : x >= y

\* s.find(lit) + 1, 0 when absent
Find(s, lit) == MinOr0({i \in 1..(Len(s) + 1) : StartsAt(s, i, lit)})

\* s.rfind(lit) + 1, 0 when absent
RFind(s, lit) == MaxOr0({i \in 1..(Len(s) + 1) : StartsAt(s, i, lit)})

\* the characters the regular expression class \s matches
IsSpace(c) == c \in {" ", "\t", "\n", "\r"}

\* the first position at or after i that holds no whitespace (past the end
\* when none)
SkipSpace(s, i) ==
    IF i > Len(s) THEN i
    ELSE CHOOSE j \in i..(Len(s) + 1) :
            /\ j = Len(s) + 1 \/ ~IsSpace(Ch(s, j))
            /\ \A k \in i..(j - 1) : IsSpace(Ch(s, k))

\* the first position at or after i that holds no digit: where \d+ or \d*
\* stops
RECURSIVE SkipDigits(_, _)
SkipDigits(s, i) ==
    IF i <= Len(s) /\ Ch(s, i) \in {"0", "1", "2", "3", "4", "5", "6", "7", "8", "9"}
    THEN SkipDigits(s, i + 1)
    ELSE i

\* str.strip(): from the first character that is no whitespace to the last
Strip(s) ==
    SubSeq(s, SkipSpace(s, 1), MaxOr0({i \in 1..Len(s) : ~IsSpace(Ch(s, i))}))

\* int(s) for a string of decimal digits
RECURSIVE ToInt(_)
ToInt(s) ==
    IF Len(s) = 0 THEN 0
    ELSE 10 * ToInt(SubSeq(s, 1, Len(s) - 1))
         + (CHOOSE d \in 0..9 : Ch("0123456789", d + 1) = Ch(s, Len(s)))

\* str(n) for n >= 0
RECURSIVE ToStr(_)
ToStr(n) ==
    IF n < 10 THEN Ch("0123456789", n + 1)
    ELSE ToStr(n \div 10) \o Ch("0123456789", (n % 10) + 1)

\* a < b for Python strings: code point order, ord being read off the
\* printable ASCII characters chr(32)..chr(95) and chr(97)..chr(126)
RECURSIVE StrLess(_, _)
StrLess(a, b) ==
    LET At(c, low, high) ==
            IF \E i \in 1..Len(low) : Ch(low, i) = c
            THEN 31 + (CHOOSE i \in 1..Len(low) : Ch(low, i) = c)
            ELSE 96 + (CHOOSE i \in 1..Len(high) : Ch(high, i) = c)
        Ord(c) ==
            IF c = "\t" THEN 9
            ELSE IF c = "\n" THEN 10
            ELSE IF c = "\r" THEN 13
            ELSE At(c, " !\"#$%&'()*+,-./0123456789:;<=>?@ABCDEFGHIJKLMNOPQRSTUVWXYZ[\\]^_",
                    "abcdefghijklmnopqrstuvwxyz{|}~")
    IN  IF Len(b) = 0 THEN FALSE
        ELSE IF Len(a) = 0 THEN TRUE
        ELSE IF Ch(a, 1) = Ch(b, 1) THEN StrLess(From(a, 2), From(b, 2))
        ELSE Ord(Ch(a, 1)) < Ord(Ch(b, 1))

\* s.split(sep) for a one-character separator
RECURSIVE Split(_, _)
Split(s, sep) ==
    LET At(p) ==
            IF p = 0 THEN <<s>>
            ELSE <<SubSeq(s, 1, p - 1)>> \o Split(From(s, p + 1), sep)
    IN  At(Find(s, sep))

\* sep.join(parts)
RECURSIVE Join(_, _)
Join(parts, sep) ==
    IF Len(parts) = 0 THEN ""
    ELSE IF Len(parts) = 1 THEN parts[1]
    ELSE parts[1] \o sep \o Join(Tail(parts), sep)

-----------------------------------------------------------------------------
(* validation_types.py: constants.                                          *)

DIALECT_DETECTION_BYTES == 1024
EXIT_SUCCESS == 0
EXIT_WARNINGS == 2
EXIT_ERRORS == 3

DIALECT_CLOJURE == "clojure"
DIALECT_RACKET == "racket"
DIALECT_SCHEME == "scheme"
DIALECT_COMMON_LISP == "common-lisp"
DIALECT_ELISP == "elisp"
DIALECT_UNKNOWN == "unknown"

\* Python's None where a string is expected
None == "<None>"

-----------------------------------------------------------------------------
(* pathlib over the modelled filesystem.  An entry of fs is                 *)
(* [path, kind ("file" or "dir"), content, readable].                       *)

\* Path(p).exists()
Exists(f, p) == \E i \in 1..Len(f) : f[i].path = p

\* the entry of a path that exists
EntryOf(f, p) == f[CHOOSE i \in 1..Len(f) : f[i].path = p]

\* Path(p).is_file()
IsFile(f, p) == Exists(f, p) /\ EntryOf(f, p).kind = "file"

\* Path(p).is_dir()
IsDir(f, p) == Exists(f, p) /\ EntryOf(f, p).kind = "dir"

\* Path(p).name: the final component
PathName(p) == From(p, RFind(p, "/") + 1)

\* Path(p).suffix: the text of the name from its last dot on, when that dot is
\* neither its first nor its last character
Suffix(p) ==
    LET SuffixFrom(name, i) == IF 1 < i /\ i < Len(name) THEN From(name, i) ELSE ""
        SuffixOfName(name) == SuffixFrom(name, RFind(name, "."))
    IN  SuffixOfName(PathName(p))

\* list(Path(dir).rglob("*" + ext)): the entries below dir, files and
\* directories alike, whose name ends with ext, in the order the OS lists them
RGlob(f, dir, ext) ==
    LET EndsWith(s, lit) == Len(lit) <= Len(s) /\ StartsAt(s, Len(s) - Len(lit) + 1, lit)
        F[i \in 0..Len(f)] ==
            IF i = 0 THEN <<>>
            ELSE IF /\ StartsAt(f[i].path, 1, dir \o "/")
                    /\ EndsWith(PathName(f[i].path), ext)
                 THEN Append(F[i - 1], f[i].path)
                 ELSE F[i - 1]
    IN  F[Len(f)]

-----------------------------------------------------------------------------
(* validate.py: the dialect detector.                                       *)

\* the extension_map dict
extension_map ==
    (".clj" :> DIALECT_CLOJURE) @@ (".cljs" :> DIALECT_CLOJURE)
    @@ (".cljc" :> DIALECT_CLOJURE) @@ (".edn" :> DIALECT_CLOJURE)
    @@ (".rkt" :> DIALECT_RACKET)
    @@ (".scm" :> DIALECT_SCHEME) @@ (".ss" :> DIALECT_SCHEME)
    @@ (".lisp" :> DIALECT_COMMON_LISP) @@ (".cl" :> DIALECT_COMMON_LISP)
    @@ (".asd" :> DIALECT_COMMON_LISP)
    @@ (".el" :> DIALECT_ELISP)

\* dict.get(key, default)
DictGetOr(d, key, default) == IF key \in DOMAIN d THEN d[key] ELSE default

\* dict.get(key): the value, None for a missing key
DictGet(d, key) == DictGetOr(d, key, None)

\* detect_dialect_from_extension without the lower() call
detect_dialect_from_extension_case_sensitive(file_path) ==
    DictGet(extension_map, Suffix(file_path))

\* detect_dialect_from_extension: extension_map.get(Path(file_path).suffix.lower())
detect_dialect_from_extension(file_path) ==
    DictGet(extension_map, Lower(Suffix(file_path)))

\* detect_dialect_from_content with the Common Lisp rules tried first
detect_dialect_from_content_common_lisp_first(content) ==
    LET LineStarts == {1} \cup {i + 1 : i \in {j \in 1..Len(content) : Ch(content, j) = "\n"}}
        LineForm(lit) ==
            \E i \in LineStarts :
                \E j \in {SkipSpace(content, i)} :
                    StartsAt(content, j, lit) /\ IsSpace(Ch(content, j + Len(lit)))
        LangRacket ==
            \E i \in LineStarts :
                \E j \in {SkipSpace(content, i)} :
                    /\ StartsAt(content, j, "#lang")
                    /\ IsSpace(Ch(content, j + 5))
                    /\ StartsAt(content, SkipSpace(content, j + 5), "racket")
        BracketAs ==
            \E i \in {j \in 1..Len(content) : Ch(content, j) = "["} :
                \E k \in (i + 1)..Len(content) :
                    /\ StartsAt(content, k, ":as")
                    /\ IsSpace(Ch(content, k + 3))
                    /\ \A m \in (i + 1)..(k - 1) : Ch(content, m) # "\n"
    IN  IF LineForm("(defpackage") THEN DIALECT_COMMON_LISP
        ELSE IF LineForm("(in-package") THEN DIALECT_COMMON_LISP
        ELSE IF LineForm("(defsystem") THEN DIALECT_COMMON_LISP
        ELSE IF LineForm("(ns") THEN DIALECT_CLOJURE
        ELSE IF BracketAs \/ Contains(content, "::") THEN DIALECT_CLOJURE
        ELSE IF LangRacket THEN DIALECT_RACKET
        ELSE IF LineForm("(module") THEN DIALECT_RACKET
        ELSE IF LineForm("(define-module") THEN DIALECT_SCHEME
        ELSE None

\* detect_dialect_from_content: the first rule that matches.  LineStarts are
\* the positions where ^ matches under re.MULTILINE; LineForm is
\* re.search(r'^\s*' + lit + r'\s+', content, re.MULTILINE); LangRacket is
\* re.search(r'^\s*#lang\s+racket', ...); BracketAs is re.search(r'\[.*:as\s+',
\* content): a bracket, then on the same line ":as" and a space
detect_dialect_from_content(content) ==
    LET LineStarts == {1} \cup {i + 1 : i \in {j \in 1..Len(content) : Ch(content, j) = "\n"}}
        LineForm(lit) ==
            \E i \in LineStarts :
                \E j \in {SkipSpace(content, i)} :
                    StartsAt(content, j, lit) /\ IsSpace(Ch(content, j + Len(lit)))
        LangRacket ==
            \E i \in LineStarts :
                \E j \in {SkipSpace(content, i)} :
                    /\ StartsAt(content, j, "#lang")
                    /\ IsSpace(Ch(content, j + 5))
                    /\ StartsAt(content, SkipSpace(content, j + 5), "racket")
        BracketAs ==
            \E i \in {j \in 1..Len(content) : Ch(content, j) = "["} :
                \E k \in (i + 1)..Len(content) :
                    /\ StartsAt(content, k, ":as")
                    /\ IsSpace(Ch(content, k + 3))
                    /\ \A m \in (i + 1)..(k - 1) : Ch(content, m) # "\n"
    IN  IF LineForm("(ns") THEN DIALECT_CLOJURE
        ELSE IF BracketAs \/ Contains(content, "::") THEN DIALECT_CLOJURE
        ELSE IF LangRacket THEN DIALECT_RACKET
        ELSE IF LineForm("(module") THEN DIALECT_RACKET
        ELSE IF LineForm("(defpackage") THEN DIALECT_COMMON_LISP
        ELSE IF LineForm("(in-package") THEN DIALECT_COMMON_LISP
        ELSE IF LineForm("(defsystem") THEN DIALECT_COMMON_LISP
        ELSE IF LineForm("(define-module") THEN DIALECT_SCHEME
        ELSE None

\* the for loop of detect_dialect over [".clj", ".lisp", ".rkt", ".scm"]: the
\* first match of the first extension that has any, the directory itself when
\* none has
RECURSIVE FirstGlobbed(_, _, _)
FirstGlobbed(f, dir, exts) ==
    LET FirstOrLater(files) ==
            IF Len(files) > 0 THEN files[1] ELSE FirstGlobbed(f, dir, Tail(exts))
    IN  IF Len(exts) = 0 THEN dir
        ELSE FirstOrLater(RGlob(f, dir, Head(exts)))

\* f.read(DIALECT_DETECTION_BYTES): the first characters of the file
ReadHead(f, p) ==
    LET HeadOf(c) ==
            IF Len(c) <= DIALECT_DETECTION_BYTES THEN c
            ELSE SubSeq(c, 1, DIALECT_DETECTION_BYTES)
    IN  HeadOf(EntryOf(f, p).content)

\* the path detect_dialect looks at: the target, or for a directory the first
\* file the loop over the four extensions finds
DetectionPath(f, tgt) ==
    IF IsDir(f, tgt) THEN FirstGlobbed(f, tgt, <<".clj", ".lisp", ".rkt", ".scm">>)
    ELSE tgt

\* detect_dialect with the content heuristics tried before the extension
detect_dialect_content_first(f, tgt) ==
    LET ByExt(byExt) == IF byExt # None THEN byExt ELSE DIALECT_UNKNOWN
        File(path, byContent) ==
            IF byContent # None
            THEN [dialect |-> byContent, called |-> <<"detect_dialect_from_content">>]
            ELSE [dialect |-> ByExt(detect_dialect_from_extension(path)),
                  called |-> <<"detect_dialect_from_content",
                               "detect_dialect_from_extension">>]
        OnPath(path) ==
            IF ~IsFile(f, path) THEN [dialect |-> DIALECT_UNKNOWN, called |-> <<>>]
            ELSE File(path, IF EntryOf(f, path).readable
                            THEN detect_dialect_from_content(ReadHead(f, path))
                            ELSE None)
    IN  OnPath(DetectionPath(f, tgt))

\* detect_dialect: the dialect returned and the detector functions it called.
\* On a file the extension decides when the table has it; else the content
\* read, an exception while reading being swallowed
detect_dialect(f, tgt) ==
    LET ByContent(byContent) ==
            [dialect |-> IF byContent # None THEN byContent ELSE DIALECT_UNKNOWN,
             called |-> <<"detect_dialect_from_extension", "detect_dialect_from_content">>]
        File(path, byExt) ==
            IF byExt # None
            THEN [dialect |-> byExt, called |-> <<"detect_dialect_from_extension">>]
            ELSE IF ~EntryOf(f, path).readable
            THEN [dialect |-> DIALECT_UNKNOWN, called |-> <<"detect_dialect_from_extension">>]
            ELSE ByContent(detect_dialect_from_content(ReadHead(f, path)))
        OnPath(path) ==
            IF ~IsFile(f, path) THEN [dialect |-> DIALECT_UNKNOWN, called |-> <<>>]
            ELSE File(path, detect_dialect_from_extension(path))
    IN  OnPath(DetectionPath(f, tgt))

-----------------------------------------------------------------------------
(* Python dicts and the regular expressions the adapters match lines with.  *)

\* d[key] = value on a dict that may lack the key
DictSet(d, key, value) == (key :> value) @@ d

\* lit in str(d) for a finding or tool-error dict d, lit holding no quote: lit
\* is in a key or in a string value
InStrOfDict(lit, d) ==
    \E k \in DOMAIN d \ {"line", "col", "end_line", "end_col"} :
        Contains(k, lit) \/ Contains(d[k], lit)

\* lit in str(ws) for a list of strings ws, lit holding no quote
InStrOfList(lit, ws) == \E i \in 1..Len(ws) : Contains(ws[i], lit)

\* what (.+) takes after \s* from position i on: the text after the
\* whitespace, or the last character when whitespace is all that was left
AfterSpaces(s, i) ==
    LET AfterSpacesFrom(j) == IF j <= Len(s) THEN From(s, j) ELSE Ch(s, Len(s))
    IN  AfterSpacesFrom(SkipSpace(s, i))

\* ":<digits>:<digits>:" at the colon in position p: whether it is there, and
\* where its three colons are
LocAt(s, p) ==
    LET LocWith(q, r) ==
            [ok |-> /\ Ch(s, p) = ":"
                    /\ q > p + 1 /\ Ch(s, q) = ":"
                    /\ r > q + 1 /\ Ch(s, r) = ":",
             p |-> p, q |-> q, r |-> r]
        LocAtQ(q) == LocWith(q, SkipDigits(s, q + 1))
    IN  LocAtQ(SkipDigits(s, p + 1))

\* the dict the parsers build from a match m of (.+?):(\d+):(\d+): and the
\* severity, message and tool they give it
LocFinding(s, m, severity, message, tool) ==
    [file |-> SubSeq(s, 1, m.p - 1),
     line |-> ToInt(SubSeq(s, m.p + 1, m.q - 1)),
     col |-> ToInt(SubSeq(s, m.q + 1, m.r - 1)),
     severity |-> severity,
     message |-> message,
     tool |-> tool]

\* re.match(r'(.+?):(\d+):(\d+):\s*(.+)', s): the match, the lazy first group
\* being as short as it can; one more character has to follow the third colon
FileLineColMatch(s) ==
    LET Of(m) == [m EXCEPT !.ok = m.ok /\ m.r < Len(s)]
    IN  Of(LocAt(s, MinOr0({p \in 2..Len(s) : Of(LocAt(s, p)).ok})))

\* re.match(r'(.+?):(\d+):(\d+):(error|warning|info):\s*(.+)', s): the match.
\* After the first three groups the keyword, a colon and one more character
\* have to follow; rest is where \s*(.+) starts
FileLineColLevelMatch(s) ==
    LET LevelAt(i) ==
            IF StartsAt(s, i, "error") THEN "error"
            ELSE IF StartsAt(s, i, "warning") THEN "warning"
            ELSE IF StartsAt(s, i, "info") THEN "info"
            ELSE ""
        LevelWith(m, lv) ==
            [ok |-> /\ m.ok
                    /\ lv # ""
                    /\ StartsAt(s, m.r + 1 + Len(lv), ":")
                    /\ m.r + 1 + Len(lv) < Len(s),
             p |-> m.p, q |-> m.q, r |-> m.r, level |-> lv, rest |-> m.r + 2 + Len(lv)]
        LevelOf(m) == LevelWith(m, LevelAt(m.r + 1))
    IN  LevelOf(LocAt(s, MinOr0({p \in 2..Len(s) : LevelOf(LocAt(s, p)).ok})))

\* re.match(r'(.+?):(\d+):(\d+):\s*(.+?):\s*(.+)', s): the match.  The fourth
\* group starts after the whitespace that follows the third colon and ends at
\* the first colon that leaves a character for the fifth; when no colon fits,
\* \s* gives one character back and the group is that character.
JokerMatch(s) ==
    LET TypeColonFrom(i, a) ==
            IF \E c \in (a + 1)..(Len(s) - 1) : Ch(s, c) = ":"
            THEN MinOr0({c \in (a + 1)..(Len(s) - 1) : Ch(s, c) = ":"})
            ELSE IF a > i /\ a < Len(s) /\ Ch(s, a) = ":" THEN a
            ELSE 0
        JokerWith(m, a, c) ==
            [ok |-> m.ok /\ c # 0, p |-> m.p, q |-> m.q, r |-> m.r,
             start |-> IF c = a THEN a - 1 ELSE a, colon |-> c]
        JokerFrom(m, a) == JokerWith(m, a, TypeColonFrom(m.r + 1, a))
        JokerOf(m) == JokerFrom(m, SkipSpace(s, m.r + 1))
    IN  JokerOf(LocAt(s, MinOr0({p \in 2..Len(s) : JokerOf(LocAt(s, p)).ok})))

\* output.strip().split('\n') without the empty lines the loops skip
Lines(text) == SelectSeq(Split(Strip(text), "\n"), LAMBDA line : line # "")

\* a sort on the file alone: list.sort(key=lambda x: x["file"])
SortFindings_by_file(findings) ==
    LET KeyLess(a, b) == StrLess(a.file, b.file)
        InsertAt(sorted, x, k) == SubSeq(sorted, 1, k) \o <<x>> \o SubSeq(sorted, k + 1, Len(sorted))
        Insert(sorted, x) ==
            InsertAt(sorted, x, Cardinality({i \in 1..Len(sorted) : ~KeyLess(x, sorted[i])}))
        Sorted[n \in 0..Len(findings)] ==
            IF n = 0 THEN <<>> ELSE Insert(Sorted[n - 1], findings[n])
    IN  Sorted[Len(findings)]

\* list.sort(key=lambda x: (x["file"], x["line"], x["col"])): stable and
\* ascending.  Each element is inserted after every element not greater.
SortFindings(findings) ==
    LET KeyLess(a, b) ==
            \/ StrLess(a.file, b.file)
            \/ a.file = b.file /\ a.line < b.line
            \/ a.file = b.file /\ a.line = b.line /\ a.col < b.col
        InsertAt(sorted, x, k) == SubSeq(sorted, 1, k) \o <<x>> \o SubSeq(sorted, k + 1, Len(sorted))
        Insert(sorted, x) ==
            InsertAt(sorted, x, Cardinality({i \in 1..Len(sorted) : ~KeyLess(x, sorted[i])}))
        Sorted[n \in 0..Len(findings)] ==
            IF n = 0 THEN <<>> ELSE Insert(Sorted[n - 1], findings[n])
    IN  Sorted[Len(findings)]

-----------------------------------------------------------------------------
(* What spawning an external tool can do: subprocess.run raises             *)
(* FileNotFoundError, TimeoutExpired or another exception, or the tool runs *)
(* and exits with a return code, having written stdout and stderr.          *)

\* what one spawn did: the tool, how subprocess.run ended, and what the tool
\* returned and printed
Spawn(tool, proc) == [tool |-> tool, kind |-> proc.kind, proc |-> proc]

\* the most findings one tool reports in one run
MaxOut == 2

Failures == {"not_found", "timeout", "oserror"}

Failed(k) == [kind |-> k, returncode |-> 0, stdout |-> "", stderr |-> ""]

Ran(rc, out, err) == [kind |-> "ran", returncode |-> rc, stdout |-> out, stderr |-> err]

\* str(e) of an exception other than FileNotFoundError and TimeoutExpired
OsErrorText == "[Errno 13] Permission denied"

\* the selections of at most MaxOut elements of a list, each in the list's order
Selections(list) ==
    LET Pick(I) ==
            LET P[i \in 0..Len(list)] ==
                    IF i = 0 THEN <<>>
                    ELSE IF i \in I THEN Append(P[i - 1], list[i]) ELSE P[i - 1]
            IN  P[Len(list)]
    IN  {Pick(I) : I \in {J \in SUBSET (1..Len(list)) : Cardinality(J) <= MaxOut}}

\* the texts a tool prints: at most MaxOut lines of the lines it may print
TextsOf(pool) == {Join(ls, "\n") : ls \in Selections(pool)}

\* result["warnings"].append(w), the list created when the key is missing
AddWarning(r, w) ==
    IF "warnings" \in DOMAIN r
    THEN [r EXCEPT !.warnings = Append(@, w)]
    ELSE DictSet(r, "warnings", <<w>>)

\* result.get("warnings", [])
WarningsOf(r) == DictGetOr(r, "warnings", <<>>)

\* result["summary"]["tools_used"].append(tool)
AddTool(r, tool) == [r EXCEPT !.summary.tools_used = Append(@, tool)]

\* result["findings"].sort(key=lambda x: (x["file"], x["line"], x["col"]))
SortedResult(r) == [r EXCEPT !.findings = SortFindings(@)]

\* where an adapter returns to: validate's merge, or its own caller
ReturnPc == IF entry \in {"main", "validate"} THEN "merge" ELSE "returned"

\* where validate returns to: main's format_output, or its own caller
ValidateReturnPc == IF entry = "main" THEN "format" ELSE "returned"

\* where an exception that escapes an adapter goes: main's traceback, or the
\* adapter's caller
RaisePc == IF entry = "main" THEN "crash" ELSE "raised"

-----------------------------------------------------------------------------
(* validate_clojure.py                                                      *)

\* what spawning clj-kondo can do; stdout is empty, not JSON, or the JSON
\* document of some findings with clj-kondo's own count of each level
KondoProcs ==
    LET KondoFinding(file, row, col, level, msg, type) ==
            ("filename" :> file) @@ ("row" :> row) @@ ("col" :> col)
            @@ ("end-row" :> row) @@ ("end-col" :> col + 1)
            @@ ("level" :> level) @@ ("message" :> msg) @@ ("type" :> type)
        KondoPool ==
            <<KondoFinding("b.clj", 2, 1, "error", "Unresolved symbol: x", "unresolved-symbol"),
              KondoFinding("a.clj", 10, 1, "warning", "unused binding y", "unused-binding"),
              KondoFinding("a.clj", 5, 1, "info", "redundant do", "redundant-do")>>
        CountLevel(fseq, level) ==
            Cardinality({i \in 1..Len(fseq) : fseq[i]["level"] = level})
        KondoDoc(fseq) ==
            [findings |-> fseq,
             summary |-> [error |-> CountLevel(fseq, "error"),
                          warning |-> CountLevel(fseq, "warning"),
                          info |-> CountLevel(fseq, "info")]]
    IN  {[kind |-> k, out |-> "empty", doc |-> KondoDoc(<<>>)] : k \in Failures}
        \cup {[kind |-> "ran", out |-> o, doc |-> KondoDoc(<<>>)] : o \in {"empty", "invalid"}}
        \cup {[kind |-> "ran", out |-> "object", doc |-> KondoDoc(fseq)] :
                fseq \in Selections(KondoPool)}

\* run_clj_kondo: the dict returned for what the spawn did
run_clj_kondo(proc) ==
    IF proc.kind = "not_found"
    THEN [error |-> "clj-kondo not found", findings |-> <<>>, summary |-> <<>>]
    ELSE IF proc.kind = "timeout"
    THEN [error |-> "clj-kondo timed out", findings |-> <<>>, summary |-> <<>>]
    ELSE IF proc.kind = "oserror"
    THEN [error |-> "clj-kondo error: " \o OsErrorText, findings |-> <<>>, summary |-> <<>>]
    ELSE IF proc.out = "empty"
    THEN [findings |-> <<>>, summary |-> [error |-> 0, warning |-> 0, info |-> 0]]
    ELSE IF proc.out = "invalid"
    THEN [error |-> "Failed to parse clj-kondo output: Expecting value: line 1 column 1 (char 0)",
          findings |-> <<>>, summary |-> <<>>]
    ELSE proc.doc

\* normalize_clj_kondo_findings
normalize_clj_kondo_findings(findings) ==
    [i \in 1..Len(findings) |->
        [file |-> DictGetOr(findings[i], "filename", "unknown"),
         line |-> DictGetOr(findings[i], "row", 0),
         col |-> DictGetOr(findings[i], "col", 0),
         end_line |-> DictGet(findings[i], "end-row"),
         end_col |-> DictGet(findings[i], "end-col"),
         severity |-> DictGetOr(findings[i], "level", "error"),
         message |-> DictGetOr(findings[i], "message", ""),
         type |-> DictGetOr(findings[i], "type", "unknown"),
         tool |-> "clj-kondo"]]

\* the files run_joker lints: the target, or the .clj and .cljs files below it
JokerFiles(f, tgt) ==
    IF IsFile(f, tgt) THEN <<tgt>>
    ELSE RGlob(f, tgt, ".clj") \o RGlob(f, tgt, ".cljs")

\* what one spawn of joker can do: it raises, or prints some lines on stderr
JokerProcs ==
    LET JokerPool ==
            <<"b.clj:2:1: Parse error: Unable to resolve symbol: x",
              "a.clj:7:2: Parse warning: unused binding: y",
              "a.clj:1:14: Read error: EOF while reading">>
    IN  {Failed(k) : k \in Failures}
        \cup {Ran(IF t = "" THEN 0 ELSE 1, "", t) : t \in TextsOf(JokerPool)}

\* parse_joker_output on each text joker may print: for every line that
\* matches, a dict whose severity is read off the issue type
parse_joker_output ==
    LET FindingOf(line, m, issue_type) ==
            DictSet(LocFinding(line, m,
                               IF Contains(Lower(issue_type), "error") THEN "error" ELSE "warning",
                               Strip(AfterSpaces(line, m.colon + 1)), "joker"),
                    "type", Strip(issue_type))
        Finding(line, m) ==
            IF m.ok THEN <<FindingOf(line, m, SubSeq(line, m.start, m.colon - 1))>>
            ELSE <<>>
        Parse(ls) ==
            LET P[i \in 0..Len(ls)] ==
                    IF i = 0 THEN <<>> ELSE P[i - 1] \o Finding(ls[i], JokerMatch(ls[i]))
            IN  P[Len(ls)]
    IN  [text \in {p.stderr : p \in JokerProcs} |-> Parse(Lines(text))]

\* run_joker: the for loop over the files; procs[i] is what spawning joker on
\* the i-th file does, and the first spawn that raises ends the loop
run_joker(tgt, procs) ==
    LET JokerError(kind) ==
            [error |-> IF kind = "not_found" THEN "joker not found"
                       ELSE IF kind = "timeout" THEN "joker timed out"
                       ELSE "joker error: " \o OsErrorText,
             file |-> tgt, tool |-> "joker"]
        Step(st, proc) ==
            IF st.returned THEN st
            ELSE IF proc.kind # "ran"
            THEN [errors |-> Append(st.errors, JokerError(proc.kind)), returned |-> TRUE]
            ELSE IF proc.stderr # ""
            THEN [st EXCEPT !.errors = @ \o parse_joker_output[proc.stderr]]
            ELSE st
        Loop[i \in 0..Len(procs)] ==
            IF i = 0 THEN [errors |-> <<>>, returned |-> FALSE]
            ELSE Step(Loop[i - 1], procs[i])
    IN  Loop[Len(procs)].errors

\* how many times run_joker spawned joker
JokerSpawns(procs) ==
    IF \A i \in 1..Len(procs) : procs[i].kind = "ran" THEN Len(procs)
    ELSE MinOr0({i \in 1..Len(procs) : procs[i].kind # "ran"})

\* validate_clojure, lines 199-208: the primary tool's result taken in: its
\* error as a warning, or its findings normalized and its counts added
ClojureAfterKondo(r, kondo_result) ==
    LET Take(summary) ==
            [r EXCEPT
                !.findings = @ \o normalize_clj_kondo_findings(
                                    DictGetOr(kondo_result, "findings", <<>>)),
                !.summary.tools_used = Append(@, "clj-kondo"),
                !.summary.total_errors = @ + DictGetOr(summary, "error", 0),
                !.summary.total_warnings = @ + DictGetOr(summary, "warning", 0)]
    IN  IF "error" \in DOMAIN kondo_result
        THEN DictSet(r, "warnings", <<kondo_result.error>>)
        ELSE Take(DictGetOr(kondo_result, "summary", <<>>))

\* validate_clojure's joker loop with a warning that takes the place of the
\* warnings there were
ClojureAfterJoker_warning_replaces(r, joker_errors) ==
    LET Location(f) == <<f.file, f.line, f.col>>
        existing == {Location(r.findings[i]) : i \in 1..Len(r.findings)}
        AddFinding(acc, f) ==
            [acc EXCEPT !.findings = Append(@, f),
                        !.summary.total_errors = IF f.severity = "error" THEN @ + 1 ELSE @,
                        !.summary.total_warnings = IF f.severity = "error" THEN @ ELSE @ + 1]
        Step(acc, e) ==
            IF "error" \in DOMAIN e THEN DictSet(acc, "warnings", <<e.error>>)
            ELSE IF Location(e) \notin existing THEN AddFinding(acc, e)
            ELSE acc
        Loop[i \in 0..Len(joker_errors)] ==
            IF i = 0 THEN r ELSE Step(Loop[i - 1], joker_errors[i])
        ListJoker(merged) ==
            IF ~InStrOfList("joker not found", WarningsOf(merged))
            THEN AddTool(merged, "joker")
            ELSE merged
    IN  ListJoker(Loop[Len(joker_errors)])

\* validate_clojure's joker loop without the existing_locations test: every
\* joker finding is appended
ClojureAfterJoker_keep_duplicates(r, joker_errors) ==
    LET AddFinding(acc, f) ==
            [acc EXCEPT !.findings = Append(@, f),
                        !.summary.total_errors = IF f.severity = "error" THEN @ + 1 ELSE @,
                        !.summary.total_warnings = IF f.severity = "error" THEN @ ELSE @ + 1]
        Step(acc, e) ==
            IF "error" \in DOMAIN e THEN AddWarning(acc, e.error)
            ELSE AddFinding(acc, e)
        Loop[i \in 0..Len(joker_errors)] ==
            IF i = 0 THEN r ELSE Step(Loop[i - 1], joker_errors[i])
        ListJoker(merged) ==
            IF ~InStrOfList("joker not found", WarningsOf(merged))
            THEN AddTool(merged, "joker")
            ELSE merged
    IN  ListJoker(Loop[Len(joker_errors)])

\* validate_clojure's joker loop counting every joker finding, the ones at an
\* existing location too
ClojureAfterJoker_counts_duplicates(r, joker_errors) ==
    LET Location(f) == <<f.file, f.line, f.col>>
        existing == {Location(r.findings[i]) : i \in 1..Len(r.findings)}
        Count(acc, f) ==
            [acc EXCEPT !.summary.total_errors = IF f.severity = "error" THEN @ + 1 ELSE @,
                        !.summary.total_warnings = IF f.severity = "error" THEN @ ELSE @ + 1]
        AddFinding(acc, f) == [acc EXCEPT !.findings = Append(@, f)]
        Step(acc, e) ==
            IF "error" \in DOMAIN e THEN AddWarning(acc, e.error)
            ELSE IF Location(e) \notin existing THEN AddFinding(Count(acc, e), e)
            ELSE Count(acc, e)
        Loop[i \in 0..Len(joker_errors)] ==
            IF i = 0 THEN r ELSE Step(Loop[i - 1], joker_errors[i])
        ListJoker(merged) ==
            IF ~InStrOfList("joker not found", WarningsOf(merged))
            THEN AddTool(merged, "joker")
            ELSE merged
    IN  ListJoker(Loop[Len(joker_errors)])

\* validate_clojure, lines 212-236: the secondary tool's result taken in.  A
\* dict with an "error" key becomes a warning; a finding at a location no
\* finding had before the loop is appended and counted, every severity other
\* than error counting as a warning; joker is listed in tools_used unless the
\* warnings mention "joker not found".
ClojureAfterJoker(r, joker_errors) ==
    LET Location(f) == <<f.file, f.line, f.col>>
        existing == {Location(r.findings[i]) : i \in 1..Len(r.findings)}
        AddFinding(acc, f) ==
            [acc EXCEPT !.findings = Append(@, f),
                        !.summary.total_errors = IF f.severity = "error" THEN @ + 1 ELSE @,
                        !.summary.total_warnings = IF f.severity = "error" THEN @ ELSE @ + 1]
        Step(acc, e) ==
            IF "error" \in DOMAIN e THEN AddWarning(acc, e.error)
            ELSE IF Location(e) \notin existing THEN AddFinding(acc, e)
            ELSE acc
        Loop[i \in 0..Len(joker_errors)] ==
            IF i = 0 THEN r ELSE Step(Loop[i - 1], joker_errors[i])
        ListJoker(merged) ==
            IF ~InStrOfList("joker not found", WarningsOf(merged))
            THEN AddTool(merged, "joker")
            ELSE merged
    IN  ListJoker(Loop[Len(joker_errors)])

-----------------------------------------------------------------------------
(* validate_scheme.py                                                       *)

\* an availability check that takes a raco that could not be run for one
\* that is there
check_raco_available_always(proc) ==
    IF proc.kind \in {"ran", "not_found", "timeout"} THEN "True" ELSE "raise"

\* check_raco_available: FileNotFoundError and TimeoutExpired are caught;
\* "raise" stands for an exception that is not
check_raco_available(proc) ==
    IF proc.kind = "ran" THEN "True"
    ELSE IF proc.kind \in {"not_found", "timeout"} THEN "False"
    ELSE "raise"

\* the dict a raco runner appends when its spawn raises
RacoError(tool, kind, tgt) ==
    LET Of(sub) ==
            IF kind = "not_found"
            THEN [error |-> IF tool = "raco-expand" THEN "raco not found"
                            ELSE IF tool = "raco-review"
                            THEN "raco review not installed (run: raco pkg install review)"
                            ELSE "raco warn not installed (run: raco pkg install syntax-warn)",
                  tool |-> tool]
            ELSE [error |-> IF kind = "timeout" THEN "raco " \o sub \o " timed out"
                            ELSE "raco " \o sub \o " error: " \o OsErrorText,
                  file |-> tgt, tool |-> tool]
    IN  Of(From(tool, 6))

\* lines raco expand may print on stderr
RacoExpandProcs ==
    LET RacoExpandPool ==
            <<"b.rkt:2:5: read-syntax: expected a closing paren",
              "unbound identifier in: foo",
              "  context...:">>
    IN  {Failed(k) : k \in Failures} \cup {Ran(0, "", "")}
        \cup {Ran(1, "", t) : t \in TextsOf(RacoExpandPool)}

\* lines raco review may print on stdout
RacoReviewProcs ==
    LET RacoReviewPool ==
            <<"b.rkt:4:1:warning: unused variable",
              "b.rkt:1:1:error: identifier not installed in scope">>
    IN  {Failed(k) : k \in Failures} \cup {Ran(0, t, "") : t \in TextsOf(RacoReviewPool)}

\* lines raco warn may print on stdout
RacoWarnProcs ==
    LET RacoWarnPool ==
            <<"b.rkt:3:0:warning: require is not sorted suggestion: sort the clauses",
              "b.rkt:1:0:info: phase order">>
    IN  {Failed(k) : k \in Failures} \cup {Ran(0, t, "") : t \in TextsOf(RacoWarnPool)}

\* lines a fallback interpreter may print, on either stream
FallbackProcs ==
    LET FallbackPool == <<"Unbound variable: foo", "Backtrace:", "b.rkt:3:1: Syntax error">>
    IN  {Failed(k) : k \in Failures} \cup {Ran(0, "", "")}
        \cup {Ran(1, "", t) : t \in TextsOf(FallbackPool)}
        \cup {Ran(1, t, "") : t \in TextsOf(FallbackPool)}

\* what "raco version" can do
RacoVersionProcs == {Failed(k) : k \in Failures} \cup {Ran(0, "Racket v8.10", "")}

\* parse_raco_errors: for each line a located error when it matches, an
\* unlocated one when it mentions an error, or nothing
parse_raco_errors(text, filename, tool) ==
    LET Finding(line, m) ==
            IF m.ok
            THEN <<LocFinding(line, m, "error", Strip(AfterSpaces(line, m.r + 1)), tool)>>
            ELSE IF Contains(Lower(line), "error") \/ Contains(Lower(line), "unbound")
            THEN <<[file |-> filename, line |-> 0, col |-> 0, severity |-> "error",
                    message |-> Strip(line), tool |-> tool]>>
            ELSE <<>>
        Parse(ls) ==
            LET P[i \in 0..Len(ls)] ==
                    IF i = 0 THEN <<>> ELSE P[i - 1] \o Finding(ls[i], FileLineColMatch(ls[i]))
            IN  P[Len(ls)]
    IN  Parse(Lines(text))

\* parse_raco_structured_output: a dict for each line that matches
parse_raco_structured_output(text, tool) ==
    LET Finding(line, m) ==
            IF m.ok
            THEN <<LocFinding(line, m, m.level, Strip(AfterSpaces(line, m.rest)), tool)>>
            ELSE <<>>
        Parse(ls) ==
            LET P[i \in 0..Len(ls)] ==
                    IF i = 0 THEN <<>>
                    ELSE P[i - 1] \o Finding(ls[i], FileLineColLevelMatch(ls[i]))
            IN  P[Len(ls)]
    IN  Parse(Lines(text))

\* parse_raco_warn_output: a dict for each line that matches.  The lazy message
\* ends at the first place where (?:\s+suggestion:\s*(.+))?$ matches:
\* whitespace, "suggestion:" and at least one more character, or the end of
\* the line; a suggestion found is stripped and stored.
parse_raco_warn_output(text, tool) ==
    LET SuggestionFrom(s, i, j) ==
            /\ IsSpace(Ch(s, i))
            /\ StartsAt(s, j, "suggestion:")
            /\ j + 11 <= Len(s)
        SuggestionAt(s, i) == SuggestionFrom(s, i, SkipSpace(s, i))
        WithSuggestion(base, line, e) ==
            IF e < Len(line)
            THEN DictSet(base, "suggestion",
                         Strip(AfterSpaces(line, SkipSpace(line, e + 1) + 11)))
            ELSE base
        FindingTo(line, m, a, e) ==
            WithSuggestion(LocFinding(line, m, m.level, Strip(SubSeq(line, a, e)), tool),
                           line, e)
        FindingFrom(line, m, a) ==
            FindingTo(line, m, a,
                MinOr0({x \in a..Len(line) : x = Len(line) \/ SuggestionAt(line, x + 1)}))
        FindingAfter(line, m, a0) ==
            FindingFrom(line, m, IF a0 <= Len(line) THEN a0 ELSE Len(line))
        Finding(line, m) ==
            IF m.ok THEN <<FindingAfter(line, m, SkipSpace(line, m.rest))>> ELSE <<>>
        Parse(ls) ==
            LET P[i \in 0..Len(ls)] ==
                    IF i = 0 THEN <<>>
                    ELSE P[i - 1] \o Finding(ls[i], FileLineColLevelMatch(ls[i]))
            IN  P[Len(ls)]
    IN  Parse(Lines(text))

\* every target a call is given
KnownTargets == {"a.clj", "n.txt", "d", "zz.clj"}

\* the scheme_dialect values validate_scheme is given; "r7rs" names no
\* interpreter
SchemeDialects == {"guile", "mit", "r7rs"}

\* run_raco_expand, for each thing the spawn can do and each target
run_raco_expand ==
    [proc \in RacoExpandProcs, tgt \in KnownTargets |->
        IF proc.kind # "ran" THEN <<RacoError("raco-expand", proc.kind, tgt)>>
        ELSE IF proc.returncode # 0 /\ proc.stderr # ""
        THEN parse_raco_errors(proc.stderr, tgt, "raco-expand")
        ELSE <<>>]

\* run_raco_review, for each thing the spawn can do and each target
run_raco_review ==
    [proc \in RacoReviewProcs, tgt \in KnownTargets |->
        IF proc.kind # "ran" THEN <<RacoError("raco-review", proc.kind, tgt)>>
        ELSE IF proc.stdout # "" THEN parse_raco_structured_output(proc.stdout, "raco-review")
        ELSE <<>>]

\* run_raco_warn, for each thing the spawn can do and each target
run_raco_warn ==
    [proc \in RacoWarnProcs, tgt \in KnownTargets |->
        IF proc.kind # "ran" THEN <<RacoError("raco-warn", proc.kind, tgt)>>
        ELSE IF proc.stdout # "" THEN parse_raco_warn_output(proc.stdout, "raco-warn")
        ELSE <<>>]

\* the validators dict of run_fallback_scheme_validator: its keys
FallbackValidators == {"guile", "chez", "chicken", "mit"}

\* run_fallback_scheme_validator, for each thing the spawn can do, each target
\* and each dialect; no process is spawned for an unknown dialect.  After a
\* non-zero exit every line of error_output.split('\n') that holds a keyword
\* becomes an unlocated error.
run_fallback_scheme_validator ==
    LET Scan(ls, tgt, tool) ==
            LET P[i \in 0..Len(ls)] ==
                    IF i = 0 THEN <<>>
                    ELSE IF \E kw \in {"error", "unbound", "undefined", "syntax"} :
                                Contains(Lower(ls[i]), kw)
                    THEN Append(P[i - 1],
                                [file |-> tgt, line |-> 0, col |-> 0, severity |-> "error",
                                 message |-> Strip(ls[i]), tool |-> tool])
                    ELSE P[i - 1]
            IN  P[Len(ls)]
        Run(proc, tgt, scheme_dialect, tool) ==
            IF scheme_dialect \notin FallbackValidators
            THEN <<[error |-> "Unknown Scheme dialect: " \o scheme_dialect]>>
            ELSE IF proc.kind = "not_found"
            THEN <<[error |-> scheme_dialect \o " not found", tool |-> tool]>>
            ELSE IF proc.kind = "timeout"
            THEN <<[error |-> scheme_dialect \o " timed out", file |-> tgt, tool |-> tool]>>
            ELSE IF proc.kind = "oserror"
            THEN <<[error |-> scheme_dialect \o " error: " \o OsErrorText,
                    file |-> tgt, tool |-> tool]>>
            ELSE IF proc.returncode # 0
            THEN Scan(Split(IF proc.stderr # "" THEN proc.stderr ELSE proc.stdout, "\n"),
                      tgt, tool)
            ELSE <<>>
    IN  [proc \in FallbackProcs, tgt \in KnownTargets, scheme_dialect \in SchemeDialects |->
            Run(proc, tgt, scheme_dialect, "scheme-" \o scheme_dialect)]

\* validate_scheme, lines 347, 352, 358 and 365: the dicts without an "error"
\* key are taken into the findings
TakeFindings(r, errors) ==
    [r EXCEPT !.findings = @ \o SelectSeq(errors, LAMBDA e : "error" \notin DOMAIN e)]

\* validate_scheme, lines 346-348, 351-354 and 357-360: one raco runner's list
\* taken in.  raco-expand is always listed in tools_used; the other two when
\* the list is not empty and its first dict does not mention "not installed"
SchemeAfterRaco(r, tool, errors) ==
    IF \/ tool = "raco-expand"
       \/ Len(errors) > 0 /\ ~InStrOfDict("not installed", errors[1])
    THEN AddTool(TakeFindings(r, errors), tool)
    ELSE TakeFindings(r, errors)

\* validate_scheme, lines 364-366: the fallback's list taken in
SchemeAfterFallback(r, scheme_dialect, errors) ==
    AddTool(TakeFindings(r, errors), "scheme-" \o scheme_dialect)

\* the counting loop that ends validate_scheme and validate_tree_sitter: a
\* finding counts when its severity, read with .get, is error or warning
Counted(r) ==
    LET CountSeverity(sev) ==
            Cardinality({i \in 1..Len(r.findings) :
                            DictGet(r.findings[i], "severity") = sev})
    IN  [r EXCEPT !.summary.total_errors = @ + CountSeverity("error"),
                  !.summary.total_warnings = @ + CountSeverity("warning")]

\* validate_scheme, lines 368-378: count, sort, return
SchemeFinish(r) == SortedResult(Counted(r))

-----------------------------------------------------------------------------
(* validate_common_lisp.py                                                  *)

\* what spawning sblint can do
SblintProcs ==
    LET SblintPool ==
            <<"a.lisp:3:7: undefined variable: X",
              "a.lisp:1:0: WARNING: unused X",
              "a.lisp:2:1: line too long">>
    IN  {Failed(k) : k \in Failures} \cup {Ran(0, t, "") : t \in TextsOf(SblintPool)}
        \cup {Ran(1, "", "a.lisp:9:9: fatal error"), Ran(1, "", "a.lisp:9:9: fatal")}

\* what spawning sbcl can do
SbclProcs ==
    LET SbclPool ==
            <<"debugger invoked on a SB-INT:SIMPLE-READER-ERROR: unmatched close parenthesis",
              "  Line: 3, Column: 7 Type HELP for debugger help, or (SB-EXT:EXIT) to exit",
              "WARNING: unused X">>
    IN  {Failed(k) : k \in Failures} \cup {Ran(0, "", "WARNING: unused X")}
        \cup {Ran(1, "", t) : t \in TextsOf(SbclPool)}
        \cup {Ran(1, "STYLE-WARNING: redefining F", "")}

\* a parser that looks for the warning words before the error words
parse_sblint_output_warning_first(text) ==
    LET SeverityOf(m) ==
            IF \E w \in {"warning", "style-warning"} : Contains(m, w) THEN "warning"
            ELSE IF \E w \in {"error", "undefined", "unbound"} : Contains(m, w) THEN "error"
            ELSE "info"
        FindingOf(line, m, message) ==
            LocFinding(line, m, SeverityOf(Lower(message)), Strip(message), "sblint")
        Finding(line, m) ==
            IF m.ok THEN <<FindingOf(line, m, AfterSpaces(line, m.r + 1))>> ELSE <<>>
        Parse(ls) ==
            LET P[i \in 0..Len(ls)] ==
                    IF i = 0 THEN <<>> ELSE P[i - 1] \o Finding(ls[i], FileLineColMatch(ls[i]))
            IN  P[Len(ls)]
    IN  Parse(Lines(text))

\* parse_sblint_output: a dict for each line that matches, its severity read
\* off the lower-cased message
parse_sblint_output(text) ==
    LET SeverityOf(m) ==
            IF \E w \in {"error", "undefined", "unbound"} : Contains(m, w) THEN "error"
            ELSE IF \E w \in {"warning", "style-warning"} : Contains(m, w) THEN "warning"
            ELSE "info"
        FindingOf(line, m, message) ==
            LocFinding(line, m, SeverityOf(Lower(message)), Strip(message), "sblint")
        Finding(line, m) ==
            IF m.ok THEN <<FindingOf(line, m, AfterSpaces(line, m.r + 1))>> ELSE <<>>
        Parse(ls) ==
            LET P[i \in 0..Len(ls)] ==
                    IF i = 0 THEN <<>> ELSE P[i - 1] \o Finding(ls[i], FileLineColMatch(ls[i]))
            IN  P[Len(ls)]
    IN  Parse(Lines(text))

\* run_sblint, for each thing the spawn can do and each target
run_sblint ==
    [proc \in SblintProcs, tgt \in KnownTargets |->
        IF proc.kind = "not_found"
        THEN <<[error |-> "sblint not found (install via: ros install cxxxr/sblint)",
                tool |-> "sblint"]>>
        ELSE IF proc.kind = "timeout"
        THEN <<[error |-> "sblint timed out", file |-> tgt, tool |-> "sblint"]>>
        ELSE IF proc.kind = "oserror"
        THEN <<[error |-> "sblint error: " \o OsErrorText, file |-> tgt, tool |-> "sblint"]>>
        ELSE (IF proc.stdout # "" THEN parse_sblint_output(proc.stdout) ELSE <<>>)
             \o (IF proc.stderr # "" /\ Contains(Lower(proc.stderr), "error")
                 THEN parse_sblint_output(proc.stderr) ELSE <<>>)]

\* re.search(r'Line:\s*(\d+),\s*Column:\s*(\d+)', s): the first match.  Tried
\* at position i, the first number is the text from a to b - 1 and the second
\* the text from d on.
LineColSearch(s) ==
    LET LineColEnd(i, a, b, d) ==
            [ok |-> /\ StartsAt(s, i, "Line:") /\ b > a /\ StartsAt(s, b, ",")
                    /\ StartsAt(s, SkipSpace(s, b + 1), "Column:") /\ SkipDigits(s, d) > d,
             line |-> SubSeq(s, a, b - 1),
             col |-> SubSeq(s, d, SkipDigits(s, d) - 1)]
        LineColMid(i, a, b) == LineColEnd(i, a, b, SkipSpace(s, SkipSpace(s, b + 1) + 7))
        LineColFrom(i, a) == LineColMid(i, a, SkipDigits(s, a))
        LineColAt(i) == LineColFrom(i, SkipSpace(s, i + 5))
    IN  LineColAt(MinOr0({i \in 1..Len(s) : LineColAt(i).ok}))

\* re.sub(r'debugger invoked on a [A-Z::-]+:\s*', '', s).  The greedy class
\* runs as far as it can and gives back down to the last colon it took; the
\* match ends after the whitespace that follows that colon.
RECURSIVE SubDebugger(_)
SubDebugger(s) ==
    LET InClass(c) ==
            c \in {":", "-"} \/ \E k \in 1..26 : Ch("ABCDEFGHIJKLMNOPQRSTUVWXYZ", k) = c
        SkipClass(i) ==
            MinOr0({j \in i..(Len(s) + 1) : j = Len(s) + 1 \/ ~InClass(Ch(s, j))})
        DebuggerColon(i, c) ==
            IF StartsAt(s, i, "debugger invoked on a ") /\ c # 0
            THEN SkipSpace(s, c + 1) ELSE 0
        DebuggerAt(i) ==
            DebuggerColon(i, MaxOr0({c \in (i + 23)..(SkipClass(i + 22) - 1) : Ch(s, c) = ":"}))
        SubAt(p) ==
            IF p = 0 THEN s
            ELSE SubSeq(s, 1, p - 1) \o SubDebugger(From(s, DebuggerAt(p)))
    IN  SubAt(MinOr0({i \in 1..Len(s) : DebuggerAt(i) # 0}))

\* parse_sbcl_error_block; [none |-> TRUE] is its None.  The message is the
\* text without the debugger's header and without what follows "Type HELP for
\* debugger help" (the text is one line), at most 500 characters of it.
parse_sbcl_error_block(text, filename, severity) ==
    LET CutAt(s, p) == IF p = 0 THEN s ELSE SubSeq(s, 1, p - 1)
        SubTypeHelp(s) == CutAt(s, Find(s, "Type HELP for debugger help"))
        Block(m, message) ==
            IF message = "" THEN [none |-> TRUE]
            ELSE [file |-> filename,
                  line |-> IF m.ok THEN ToInt(m.line) ELSE 0,
                  col |-> IF m.ok THEN ToInt(m.col) ELSE 0,
                  severity |-> severity,
                  message |-> IF Len(message) > 500 THEN SubSeq(message, 1, 500) ELSE message,
                  tool |-> "sbcl"]
    IN  Block(LineColSearch(text), Strip(SubTypeHelp(SubDebugger(Strip(text)))))

\* a parser that looks for STYLE-WARNING before WARNING
parse_sbcl_output_style_warning_first(text, filename) ==
    LET StartsBlock(line) ==
            \E kw \in {"ERROR", "WARNING", "STYLE-WARNING", "NOTE", "debugger invoked"} :
                Contains(line, kw)
        Severity(line) ==
            IF Contains(line, "ERROR") \/ Contains(line, "debugger invoked") THEN "error"
            ELSE IF Contains(line, "STYLE-WARNING") THEN "info"
            ELSE IF Contains(line, "WARNING") THEN "warning"
            ELSE "info"
        AppendBlock(errors, d) == IF "none" \in DOMAIN d THEN errors ELSE Append(errors, d)
        Flush(st) ==
            IF st.current_error # None /\ Len(st.current_lines) > 0
            THEN AppendBlock(st.errors,
                             parse_sbcl_error_block(Join(st.current_lines, " "), filename,
                                                    st.current_error))
            ELSE st.errors
        Step(st, line) ==
            IF StartsBlock(line)
            THEN [errors |-> Flush(st),
                  current_error |-> Severity(line),
                  current_lines |-> <<line>>]
            ELSE IF st.current_error # None
            THEN [st EXCEPT !.current_lines = Append(@, line)]
            ELSE st
        Loop(ls) ==
            LET L[i \in 0..Len(ls)] ==
                    IF i = 0
                    THEN [errors |-> <<>>, current_error |-> None, current_lines |-> <<>>]
                    ELSE Step(L[i - 1], ls[i])
            IN  Flush(L[Len(ls)])
    IN  Loop(Split(text, "\n"))

\* parse_sbcl_output: the loop over output.split('\n') and the final block.  A
\* line that holds a keyword ends the block in hand and starts a new one;
\* any other line is added to the block in hand, if there is one.
parse_sbcl_output(text, filename) ==
    LET StartsBlock(line) ==
            \E kw \in {"ERROR", "WARNING", "STYLE-WARNING", "NOTE", "debugger invoked"} :
                Contains(line, kw)
        Severity(line) ==
            IF Contains(line, "ERROR") \/ Contains(line, "debugger invoked") THEN "error"
            ELSE IF Contains(line, "WARNING") THEN "warning"
            ELSE IF Contains(line, "STYLE-WARNING") THEN "info"
            ELSE "info"
        AppendBlock(errors, d) == IF "none" \in DOMAIN d THEN errors ELSE Append(errors, d)
        Flush(st) ==
            IF st.current_error # None /\ Len(st.current_lines) > 0
            THEN AppendBlock(st.errors,
                             parse_sbcl_error_block(Join(st.current_lines, " "), filename,
                                                    st.current_error))
            ELSE st.errors
        Step(st, line) ==
            IF StartsBlock(line)
            THEN [errors |-> Flush(st),
                  current_error |-> Severity(line),
                  current_lines |-> <<line>>]
            ELSE IF st.current_error # None
            THEN [st EXCEPT !.current_lines = Append(@, line)]
            ELSE st
        Loop(ls) ==
            LET L[i \in 0..Len(ls)] ==
                    IF i = 0
                    THEN [errors |-> <<>>, current_error |-> None, current_lines |-> <<>>]
                    ELSE Step(L[i - 1], ls[i])
            IN  Flush(L[Len(ls)])
    IN  Loop(Split(text, "\n"))

\* run_sbcl_compile_check, for each thing the spawn can do and each target
run_sbcl_compile_check ==
    [proc \in SbclProcs, tgt \in KnownTargets |->
        IF proc.kind = "not_found" THEN <<[error |-> "sbcl not found", tool |-> "sbcl"]>>
        ELSE IF proc.kind = "timeout"
        THEN <<[error |-> "sbcl timed out", file |-> tgt, tool |-> "sbcl"]>>
        ELSE IF proc.kind = "oserror"
        THEN <<[error |-> "sbcl error: " \o OsErrorText, file |-> tgt, tool |-> "sbcl"]>>
        ELSE IF proc.returncode # 0
        THEN parse_sbcl_output(IF proc.stderr # "" THEN proc.stderr ELSE proc.stdout, tgt)
        ELSE <<>>]

\* result["findings"].append(f) and the += 1 on the count of its severity when
\* that is error or warning
AddFindingThreeWay(r, f) ==
    [r EXCEPT !.findings = Append(@, f),
              !.summary.total_errors = IF f.severity = "error" THEN @ + 1 ELSE @,
              !.summary.total_warnings = IF f.severity = "warning" THEN @ + 1 ELSE @]

\* validate_common_lisp, lines 297-298 and 319-320: a tool listed in
\* tools_used unless the loop raised or the warnings mention that the tool
\* was not found
ListUnlessNotFound(st, tool) ==
    IF st.raised # "" THEN st
    ELSE IF ~InStrOfList(tool \o " not found", WarningsOf(st.r))
    THEN [st EXCEPT !.r = AddTool(@, tool)]
    ELSE st

\* validate_common_lisp, lines 283-298: sblint's list taken in.  A dict with
\* an "error" key and two keys in all is a tool error and becomes a warning;
\* any other dict is appended to findings and its "severity" read, a KeyError
\* when it has none, which ends the loop.
CommonLispAfterSblint(r, sblint_errors) ==
    LET Step(st, error) ==
            IF st.raised # "" THEN st
            ELSE IF "error" \in DOMAIN error /\ Cardinality(DOMAIN error) = 2
            THEN [st EXCEPT !.r = AddWarning(@, error.error)]
            ELSE IF "severity" \notin DOMAIN error
            THEN [r |-> [st.r EXCEPT !.findings = Append(@, error)],
                  raised |-> "KeyError: 'severity'"]
            ELSE [st EXCEPT !.r = AddFindingThreeWay(@, error)]
        Loop[i \in 0..Len(sblint_errors)] ==
            IF i = 0 THEN [r |-> r, raised |-> ""]
            ELSE Step(Loop[i - 1], sblint_errors[i])
    IN  ListUnlessNotFound(Loop[Len(sblint_errors)], "sblint")

\* validate_common_lisp's sbcl loop without the existing_messages test: every
\* sbcl finding is appended
CommonLispAfterSbcl_keep_duplicates(r, sbcl_errors) ==
    LET Step(st, error) ==
            IF st.raised # "" THEN st
            ELSE IF "error" \in DOMAIN error /\ Cardinality(DOMAIN error) = 2
            THEN [st EXCEPT !.r = AddWarning(@, error.error)]
            ELSE IF "message" \notin DOMAIN error
            THEN [st EXCEPT !.raised = "KeyError: 'message'"]
            ELSE [st EXCEPT !.r = AddFindingThreeWay(@, error)]
        Loop[i \in 0..Len(sbcl_errors)] ==
            IF i = 0 THEN [r |-> r, raised |-> ""]
            ELSE Step(Loop[i - 1], sbcl_errors[i])
    IN  ListUnlessNotFound(Loop[Len(sbcl_errors)], "sbcl")

\* validate_common_lisp, lines 301-320: sbcl's list taken in.  A dict that is
\* no tool error has its "message" read, a KeyError when it has none; it is
\* appended when no finding there was before the loop has that message.
CommonLispAfterSbcl(r, sbcl_errors) ==
    LET existing_messages == {r.findings[i].message : i \in 1..Len(r.findings)}
        Step(st, error) ==
            IF st.raised # "" THEN st
            ELSE IF "error" \in DOMAIN error /\ Cardinality(DOMAIN error) = 2
            THEN [st EXCEPT !.r = AddWarning(@, error.error)]
            ELSE IF "message" \notin DOMAIN error
            THEN [st EXCEPT !.raised = "KeyError: 'message'"]
            ELSE IF error.message \notin existing_messages
            THEN [st EXCEPT !.r = AddFindingThreeWay(@, error)]
            ELSE st
        Loop[i \in 0..Len(sbcl_errors)] ==
            IF i = 0 THEN [r |-> r, raised |-> ""]
            ELSE Step(Loop[i - 1], sbcl_errors[i])
    IN  ListUnlessNotFound(Loop[Len(sbcl_errors)], "sbcl")

-----------------------------------------------------------------------------
(* validate_tree_sitter.py                                                  *)

\* check_tree_sitter_available: FileNotFoundError and TimeoutExpired are
\* caught; "raise" stands for an exception that is not
check_tree_sitter_available(proc) ==
    IF proc.kind = "ran" THEN "True"
    ELSE IF proc.kind \in {"not_found", "timeout"} THEN "False"
    ELSE "raise"

\* detect_grammar: grammar_map.get(Path(file_path).suffix.lower())
detect_grammar(file_path) ==
    LET grammar_map ==
            (".clj" :> "clojure") @@ (".cljs" :> "clojure") @@ (".cljc" :> "clojure")
            @@ (".lisp" :> "commonlisp") @@ (".cl" :> "commonlisp")
            @@ (".asd" :> "commonlisp")
            @@ (".el" :> "elisp") @@ (".rkt" :> "racket") @@ (".scm" :> "scheme")
    IN  DictGet(grammar_map, Lower(Suffix(file_path)))

\* run_tree_sitter_parse
run_tree_sitter_parse(proc) ==
    IF proc.kind = "not_found"
    THEN [error |-> "tree-sitter CLI not found (install: npm install -g tree-sitter-cli@0.19.3)"]
    ELSE IF proc.kind = "timeout" THEN [error |-> "tree-sitter parse timed out"]
    ELSE IF proc.kind = "oserror" THEN [error |-> "tree-sitter error: " \o OsErrorText]
    ELSE [output |-> proc.stdout, success |-> proc.returncode = 0, tree |-> proc.stdout]

\* \[(\d+),\s*(\d+)\] tried at position i: its comma at b, its second number
\* from c to d - 1; next is the position after it
BracketAt(s, i) ==
    LET BracketWith(b, c, d) ==
            [ok |-> /\ StartsAt(s, i, "[") /\ b > i + 1 /\ StartsAt(s, b, ",")
                    /\ d > c /\ StartsAt(s, d, "]"),
             row |-> SubSeq(s, i + 1, b - 1),
             col |-> SubSeq(s, c, d - 1),
             next |-> d + 1]
        BracketCol(b, c) == BracketWith(b, c, SkipDigits(s, c))
        BracketComma(b) == BracketCol(b, SkipSpace(s, b + 1))
    IN  BracketComma(SkipDigits(s, i + 1))

\* the findings of re.finditer(error_pattern, output) from position from on,
\* the pattern being ERROR\s+\[(\d+),\s*(\d+)\]\s*-\s*\[(\d+),\s*(\d+)\]
RECURSIVE ErrorNodes(_, _, _)
ErrorNodes(s, from, file_path) ==
    LET ErrorNodeWith(i, a, first, second) ==
            [ok |-> /\ StartsAt(s, i, "ERROR") /\ a > i + 5 /\ first.ok
                    /\ StartsAt(s, SkipSpace(s, first.next), "-") /\ second.ok,
             first |-> first, second |-> second, next |-> second.next]
        ErrorNodeDash(i, a, first) ==
            ErrorNodeWith(i, a, first,
                          BracketAt(s, SkipSpace(s, SkipSpace(s, first.next) + 1)))
        ErrorNodeFrom(i, a) == ErrorNodeDash(i, a, BracketAt(s, a))
        ErrorNodeAt(i) == ErrorNodeFrom(i, SkipSpace(s, i + 5))
        With(m) ==
            IF ~m.ok THEN <<>>
            ELSE <<[file |-> file_path,
                    line |-> ToInt(m.first.row) + 1,
                    col |-> ToInt(m.first.col) + 1,
                    end_line |-> ToInt(m.second.row) + 1,
                    end_col |-> ToInt(m.second.col) + 1,
                    severity |-> "error",
                    message |-> "Parse error: unable to parse this section (possibly incomplete or malformed)",
                    tool |-> "tree-sitter"]>>
                 \o ErrorNodes(s, m.next, file_path)
    IN  With(ErrorNodeAt(MinOr0({i \in from..Len(s) : ErrorNodeAt(i).ok})))

\* the findings of re.finditer(missing_pattern, output) from position from on,
\* the pattern being MISSING\s+(.+?)\s+\[(\d+),\s*(\d+)\].  \s+ takes as much
\* whitespace as leaves a match; the lazy group holds no newline and takes as
\* little as leaves \s+\[(\d+),\s*(\d+)\] after it.
RECURSIVE MissingNodes(_, _, _)
MissingNodes(s, from, file_path) ==
    LET SpaceBracketWith(i, a, at) == [ok |-> i <= Len(s) /\ a > i /\ at.ok, at |-> at]
        SpaceBracketFrom(i, a) == SpaceBracketWith(i, a, BracketAt(s, a))
        SpaceBracketAt(i) == SpaceBracketFrom(i, SkipSpace(s, i))
        MissingEnds(g) ==
            {e \in g..Len(s) :
                /\ \A k \in g..e : Ch(s, k) # "\n"
                /\ SpaceBracketAt(e + 1).ok}
        MissingNodeTo(i, a, g0, e0) ==
            IF StartsAt(s, i, "MISSING") /\ a > i + 7 /\ g0 # 0
            THEN [ok |-> TRUE, node_type |-> SubSeq(s, g0, e0),
                  at |-> SpaceBracketAt(e0 + 1).at]
            ELSE [ok |-> FALSE]
        MissingNodeFrom(i, a, g0) == MissingNodeTo(i, a, g0, MinOr0(MissingEnds(g0)))
        MissingNodeAfter(i, a) ==
            MissingNodeFrom(i, a, MaxOr0({g \in (i + 8)..a : MissingEnds(g) # {}}))
        MissingNodeAt(i) == MissingNodeAfter(i, SkipSpace(s, i + 7))
        With(m) ==
            IF ~m.ok THEN <<>>
            ELSE <<[file |-> file_path,
                    line |-> ToInt(m.at.row) + 1,
                    col |-> ToInt(m.at.col) + 1,
                    severity |-> "warning",
                    message |-> "Missing expected token: " \o m.node_type,
                    tool |-> "tree-sitter"]>>
                 \o MissingNodes(s, m.at.next, file_path)
    IN  With(MissingNodeAt(MinOr0({i \in from..Len(s) : MissingNodeAt(i).ok})))

\* what tree-sitter parse can do
TreeSitterProcs ==
    LET TreeSitterPool ==
            <<"(source [0, 0] - [3, 0]",
              "  (list_lit [2, 0] - [2, 9] (MISSING \")\" [2, 9] - [2, 9]))",
              "  (ERROR [0, 0] - [0, 5]))">>
    IN  {Failed(k) : k \in Failures} \cup {Ran(0, "", "")}
        \cup {Ran(1, t, "") : t \in TextsOf(TreeSitterPool)}

\* what "tree-sitter --version" can do
TreeSitterVersionProcs == {Failed(k) : k \in Failures} \cup {Ran(0, "tree-sitter 0.19.3", "")}

\* parse_tree_sitter_output, for each text the CLI may print and each target:
\* the ERROR nodes, then the MISSING nodes
parse_tree_sitter_output ==
    [output_ \in {p.stdout : p \in TreeSitterProcs}, file_path \in KnownTargets |->
        ErrorNodes(output_, 1, file_path) \o MissingNodes(output_, 1, file_path)]

\* source_code[a:b] for 0 <= a, b
Slice(s, a, b) ==
    IF a >= b \/ a >= Len(s) THEN ""
    ELSE SubSeq(s, a + 1, IF b < Len(s) THEN b ELSE Len(s))

\* a traversal that lists a node's children before the node itself
RECURSIVE extract_errors_from_tree_children_first(_, _, _)
extract_errors_from_tree_children_first(node, file_path, source_code) ==
    LET OwnErrors(error_text) ==
            (IF node.type = "ERROR"
             THEN <<[file |-> file_path,
                     line |-> node.start_point[1] + 1,
                     col |-> node.start_point[2] + 1,
                     end_line |-> node.end_point[1] + 1,
                     end_col |-> node.end_point[2] + 1,
                     severity |-> "error",
                     message |-> "Parse error in: " \o Slice(error_text, 0, 50)
                                 \o (IF Len(error_text) > 50 THEN "..." ELSE ""),
                     tool |-> "tree-sitter"]>>
             ELSE <<>>)
            \o (IF node.is_missing
                THEN <<[file |-> file_path,
                        line |-> node.start_point[1] + 1,
                        col |-> node.start_point[2] + 1,
                        severity |-> "warning",
                        message |-> "Missing expected node: " \o node.type,
                        tool |-> "tree-sitter"]>>
                ELSE <<>>)
        Children[i \in 0..Len(node.children)] ==
            IF i = 0 THEN <<>>
            ELSE Children[i - 1]
                 \o extract_errors_from_tree_children_first(node.children[i], file_path,
                                                            source_code)
    IN  Children[Len(node.children)]
        \o OwnErrors(Slice(source_code, node.start_byte, node.end_byte))

\* a traversal that does not go below an ERROR node
RECURSIVE extract_errors_from_tree_stop_at_error(_, _, _)
extract_errors_from_tree_stop_at_error(node, file_path, source_code) ==
    LET OwnErrors(error_text) ==
            (IF node.type = "ERROR"
             THEN <<[file |-> file_path,
                     line |-> node.start_point[1] + 1,
                     col |-> node.start_point[2] + 1,
                     end_line |-> node.end_point[1] + 1,
                     end_col |-> node.end_point[2] + 1,
                     severity |-> "error",
                     message |-> "Parse error in: " \o Slice(error_text, 0, 50)
                                 \o (IF Len(error_text) > 50 THEN "..." ELSE ""),
                     tool |-> "tree-sitter"]>>
             ELSE <<>>)
            \o (IF node.is_missing
                THEN <<[file |-> file_path,
                        line |-> node.start_point[1] + 1,
                        col |-> node.start_point[2] + 1,
                        severity |-> "warning",
                        message |-> "Missing expected node: " \o node.type,
                        tool |-> "tree-sitter"]>>
                ELSE <<>>)
        Children[i \in 0..Len(node.children)] ==
            IF i = 0 \/ node.type = "ERROR" THEN <<>>
            ELSE Children[i - 1]
                 \o extract_errors_from_tree_stop_at_error(node.children[i], file_path,
                                                           source_code)
    IN  OwnErrors(Slice(source_code, node.start_byte, node.end_byte))
        \o Children[Len(node.children)]

\* extract_errors_from_tree: the dicts for the node itself, error_text being
\* the text it spans, then those of its children in order
RECURSIVE extract_errors_from_tree(_, _, _)
extract_errors_from_tree(node, file_path, source_code) ==
    LET OwnErrors(error_text) ==
            (IF node.type = "ERROR"
             THEN <<[file |-> file_path,
                     line |-> node.start_point[1] + 1,
                     col |-> node.start_point[2] + 1,
                     end_line |-> node.end_point[1] + 1,
                     end_col |-> node.end_point[2] + 1,
                     severity |-> "error",
                     message |-> "Parse error in: " \o Slice(error_text, 0, 50)
                                 \o (IF Len(error_text) > 50 THEN "..." ELSE ""),
                     tool |-> "tree-sitter"]>>
             ELSE <<>>)
            \o (IF node.is_missing
                THEN <<[file |-> file_path,
                        line |-> node.start_point[1] + 1,
                        col |-> node.start_point[2] + 1,
                        severity |-> "warning",
                        message |-> "Missing expected node: " \o node.type,
                        tool |-> "tree-sitter"]>>
                ELSE <<>>)
        Children[i \in 0..Len(node.children)] ==
            IF i = 0 THEN <<>>
            ELSE Children[i - 1]
                 \o extract_errors_from_tree(node.children[i], file_path, source_code)
    IN  OwnErrors(Slice(source_code, node.start_byte, node.end_byte))
        \o Children[Len(node.children)]

\* validate_with_python_library.  env says what the imports do, whether
\* setting the language, opening or parsing raises, and the tree the parser
\* builds; grammar is what detect_grammar gave.
validate_with_python_library(f, file_path, env) ==
    LET Run(grammar) ==
            IF ~env.library
            THEN <<[error |-> "tree-sitter Python library not found (install: pip install tree-sitter)"]>>
            ELSE IF grammar = None
            THEN <<[error |-> "Unsupported file type for tree-sitter: " \o file_path]>>
            ELSE IF grammar \notin {"commonlisp", "clojure", "elisp"}
            THEN <<[error |-> "Grammar " \o grammar \o " not available in Python"]>>
            ELSE IF ~env.grammar
            THEN <<[error |-> "tree-sitter grammar not installed: No module named 'tree_sitter_"
                              \o grammar \o "'"]>>
            ELSE IF env.raises \/ ~IsFile(f, file_path) \/ ~EntryOf(f, file_path).readable
            THEN <<[error |-> "tree-sitter Python error: " \o OsErrorText]>>
            ELSE extract_errors_from_tree(env.tree, file_path, EntryOf(f, file_path).content)
    IN  Run(detect_grammar(file_path))

\* how the Python library's attempt ended: "ran" when it parsed the file,
\* "unavailable" when it returned an error dict
PythonKind(python_errors) ==
    IF Len(python_errors) > 0 /\ "error" \in DOMAIN python_errors[1]
    THEN "unavailable" ELSE "ran"

\* validate_tree_sitter, line 286: does the Python library's list send the
\* adapter to the CLI
PythonFailed(python_errors) ==
    /\ Len(python_errors) > 0
    /\ "error" \in DOMAIN python_errors[1]
    /\ Cardinality(DOMAIN python_errors[1]) = 2

\* what the Python side can be: the library or the grammar missing, an
\* exception raised, or a parse tree built
PythonEnvs ==
    LET Node(type, missing, sp, ep, sb, eb, children) ==
            [type |-> type, is_missing |-> missing, start_point |-> sp, end_point |-> ep,
             start_byte |-> sb, end_byte |-> eb, children |-> children]
        NoTree == Node("", FALSE, <<0, 0>>, <<0, 0>>, 0, 0, <<>>)
        TreePool ==
            {Node("source", FALSE, <<0, 0>>, <<3, 0>>, 0, 60, <<
                Node("list_lit", FALSE, <<0, 0>>, <<0, 6>>, 0, 6, <<>>)>>),
             Node("source", FALSE, <<0, 0>>, <<3, 0>>, 0, 60, <<
                Node("ERROR", FALSE, <<1, 0>>, <<1, 11>>, 7, 18, <<
                    Node(")", TRUE, <<1, 11>>, <<1, 11>>, 18, 18, <<>>)>>),
                Node("list_lit", FALSE, <<0, 0>>, <<0, 6>>, 0, 6, <<>>)>>),
             Node("ERROR", FALSE, <<0, 0>>, <<3, 16>>, 0, 58, <<>>),
             Node("ERROR", TRUE, <<0, 0>>, <<1, 11>>, 0, 50, <<>>)}
    IN  {[library |-> FALSE, grammar |-> FALSE, raises |-> FALSE, tree |-> NoTree],
         [library |-> TRUE, grammar |-> FALSE, raises |-> FALSE, tree |-> NoTree],
         [library |-> TRUE, grammar |-> TRUE, raises |-> TRUE, tree |-> NoTree]}
        \cup {[library |-> TRUE, grammar |-> TRUE, raises |-> FALSE, tree |-> t] : t \in TreePool}

-----------------------------------------------------------------------------
(* validate.py: validate, format_output and main                            *)

\* a not-found result that carries no error key
NotFoundResult_without_error(tgt) ==
    [target |-> tgt,
     dialect |-> DIALECT_UNKNOWN,
     findings |-> <<>>,
     summary |-> [total_errors |-> 0, total_warnings |-> 0, tools_used |-> <<>>]]

\* validate, lines 214-225: the result for a target that does not exist
NotFoundResult(tgt) ==
    [error |-> "Target not found: " \o tgt,
     target |-> tgt,
     dialect |-> DIALECT_UNKNOWN,
     findings |-> <<>>,
     summary |-> [total_errors |-> 0, total_warnings |-> 0, tools_used |-> <<>>]]

\* validate, lines 231-240: the result the adapter's is merged into
BaseResult(tgt, d) ==
    [target |-> tgt,
     detected_dialect |-> d,
     findings |-> <<>>,
     summary |-> [total_errors |-> 0, total_warnings |-> 0, tools_used |-> <<>>]]

\* validate, lines 262-265: the result for a dialect no branch takes
UnsupportedResult(tgt, d) == [error |-> "Unsupported dialect: " \o d, target |-> tgt]

\* a routing that tests the flag after the dialects
Route_flag_last(flag, d) ==
    IF d = DIALECT_CLOJURE THEN "validate_clojure"
    ELSE IF d \in {DIALECT_RACKET, DIALECT_SCHEME} THEN "validate_scheme"
    ELSE IF d = DIALECT_COMMON_LISP THEN "validate_common_lisp"
    ELSE IF flag \/ d \in {DIALECT_ELISP, DIALECT_UNKNOWN} THEN "validate_tree_sitter"
    ELSE ""

\* a routing that sends every other dialect to the universal adapter
Route_else_tree_sitter(flag, d) ==
    IF flag THEN "validate_tree_sitter"
    ELSE IF d = DIALECT_CLOJURE THEN "validate_clojure"
    ELSE IF d \in {DIALECT_RACKET, DIALECT_SCHEME} THEN "validate_scheme"
    ELSE IF d = DIALECT_COMMON_LISP THEN "validate_common_lisp"
    ELSE "validate_tree_sitter"

\* validate, lines 243-265: the adapter the if/elif chain calls, "" for the
\* else branch
Route(flag, d) ==
    IF flag THEN "validate_tree_sitter"
    ELSE IF d = DIALECT_CLOJURE THEN "validate_clojure"
    ELSE IF d \in {DIALECT_RACKET, DIALECT_SCHEME} THEN "validate_scheme"
    ELSE IF d = DIALECT_COMMON_LISP THEN "validate_common_lisp"
    ELSE IF d = DIALECT_ELISP THEN "validate_tree_sitter"
    ELSE IF d = DIALECT_UNKNOWN THEN "validate_tree_sitter"
    ELSE ""

\* validate, line 260: the text of the fallback warning
FallbackWarning == "Could not auto-detect dialect, using tree-sitter fallback"

\* a fallback branch that appends no warning
WithFallbackWarning_none(r, flag, d) == r

\* validate, lines 255-260: the warning the DIALECT_UNKNOWN branch appends
\* once the adapter has returned
WithFallbackWarning(r, flag, d) ==
    IF ~flag /\ d = DIALECT_UNKNOWN THEN AddWarning(r, FallbackWarning) ELSE r

\* a merge that takes the adapter's findings in reverse
MergeResults_reversed(r, validator_result) ==
    LET fnd == DictGetOr(validator_result, "findings", <<>>)
    IN  [r EXCEPT !.findings = [i \in 1..Len(fnd) |-> fnd[Len(fnd) + 1 - i]],
                  !.summary = DictGetOr(validator_result, "summary", <<>>)]

\* validate, lines 268-274: the adapter's findings, summary and warnings
\* taken into the result
MergeResults(r, validator_result) ==
    LET taken == [r EXCEPT !.findings = DictGetOr(validator_result, "findings", <<>>),
                           !.summary = DictGetOr(validator_result, "summary", <<>>)]
    IN  IF "warnings" \in DOMAIN validator_result
        THEN DictSet(taken, "warnings", WarningsOf(taken) \o validator_result.warnings)
        ELSE taken

\* format_output.  The JSON text is held as the value it encodes; the text
\* and summary formats read keys with [], a KeyError when one is missing.
\* FindingLines are the lines made of the findings, up to the first finding
\* that lacks a key.
format_output(r, output_format) ==
    LET Keys == <<"file", "line", "col", "severity", "message">>
        Line(f) ==
            "  [" \o Upper(f.severity) \o "] " \o f.file \o ":" \o ToStr(f.line) \o ":"
            \o ToStr(f.col) \o ": " \o f.message
        FindingStep(acc, f) ==
            IF acc.raised # "" THEN acc
            ELSE IF \E i \in 1..5 : Keys[i] \notin DOMAIN f
            THEN [raised |-> "KeyError: '"
                             \o Keys[MinOr0({i \in 1..5 : Keys[i] \notin DOMAIN f})] \o "'",
                  lines |-> <<>>]
            ELSE [acc EXCEPT !.lines = Append(@, Line(f))]
        FindingLines[i \in 0..Len(r.findings)] ==
            IF i = 0 THEN [raised |-> "", lines |-> <<>>]
            ELSE FindingStep(FindingLines[i - 1], r.findings[i])
        TextOf(body) ==
            IF body.raised # "" THEN [raised |-> body.raised, text |-> ""]
            ELSE [raised |-> "",
                  text |-> Join(<<"Target: " \o r.target,
                                  "Dialect: " \o r.detected_dialect,
                                  "">>
                                \o (IF Len(r.findings) > 0
                                    THEN <<"Findings:">> \o body.lines
                                    ELSE <<"No issues found!">>)
                                \o <<"",
                                     "Summary: " \o ToStr(r.summary.total_errors)
                                        \o " errors, " \o ToStr(r.summary.total_warnings)
                                        \o " warnings",
                                     "Tools used: " \o Join(r.summary.tools_used, ", ")>>,
                                "\n")]
        FormatText ==
            IF "detected_dialect" \notin DOMAIN r
            THEN [raised |-> "KeyError: 'detected_dialect'", text |-> ""]
            ELSE TextOf(FindingLines[Len(r.findings)])
        FormatSummary ==
            IF "summary" \notin DOMAIN r THEN [raised |-> "KeyError: 'summary'", text |-> ""]
            ELSE [raised |-> "",
                  text |-> ToStr(r.summary.total_errors) \o " errors, "
                           \o ToStr(r.summary.total_warnings) \o " warnings ("
                           \o Join(r.summary.tools_used, ", ") \o ")"]
    IN  IF output_format = "text" THEN [format |-> "text"] @@ FormatText
        ELSE IF output_format = "summary" THEN [format |-> "summary"] @@ FormatSummary
        ELSE [format |-> "json", raised |-> "", json |-> r]

\* an exit code that looks at the warnings before the errors
ExitCode_warnings_first(r) ==
    LET summary == DictGetOr(r, "summary", <<>>)
    IN  IF DictGetOr(summary, "total_warnings", 0) > 0 THEN EXIT_WARNINGS
        ELSE IF DictGetOr(summary, "total_errors", 0) > 0 THEN EXIT_ERRORS
        ELSE EXIT_SUCCESS

\* main, lines 366-373: the exit code of a result
ExitCode(r) ==
    LET summary == DictGetOr(r, "summary", <<>>)
    IN  IF DictGetOr(summary, "total_errors", 0) > 0 THEN EXIT_ERRORS
        ELSE IF DictGetOr(summary, "total_warnings", 0) > 0 THEN EXIT_WARNINGS
        ELSE EXIT_SUCCESS

-----------------------------------------------------------------------------
(* The detector on its own: every function of the detector applied to       *)
(* sample paths and contents.                                               *)

\* the paths the detector is tried on: what precedes the suffix is a plain
\* stem, a stem with dots, directories (one with a table suffix of its own),
\* or nothing (a dot file); the suffix is one of the table's, in lower case,
\* upper case or capitalized, one near the table's, or none
SamplePaths ==
    LET TableSuffixes == DOMAIN extension_map
        OtherSuffixes ==
            {"", ".", ".txt", ".cljx", ".clj~", ".lis", ".sc", ".e", ".racket", ".lsp", ".c"}
        Capitalized(x) == SubSeq(x, 1, 1) \o Upper(SubSeq(x, 2, 2)) \o From(x, 3)
        SampleSuffixes ==
            TableSuffixes \cup OtherSuffixes
                \cup {Upper(x) : x \in TableSuffixes} \cup {Capitalized(x) : x \in TableSuffixes}
        SampleStems == {"a", "src/core", "v1.2/file", "a.clj", "lib.rkt/x", ""}
    IN  {st \o su : st \in SampleStems, su \in SampleSuffixes} \ {"", "."}

\* n spaces
RECURSIVE Spaces(_)
Spaces(n) ==
    IF n = 0 THEN ""
    ELSE IF n % 2 = 1 THEN " " \o Spaces(n - 1)
    ELSE LET h == Spaces(n \div 2) IN h \o h

\* contents that match one rule, several rules, or none, and contents around
\* the read limit: the rule's text ends at, before and after it
SampleContents ==
    {"", "(define x 1)", "(ns foo)", "  (ns foo)\n(defpackage foo)",
     "(defpackage foo)\n(ns foo)", "x (ns foo)", "(nsfoo)", "(ns", "(ns\nfoo)",
     "[a :as b]", "[a\n:as b]", ":as b", "[a :as]", "a::b",
     "#lang racket", "#lang\tracket/base", "#langracket", "; #lang racket",
     "(module m racket)", "(defpackage p)", "(in-package p)", "(defsystem s)",
     "\n\t(defsystem s)", "(define-module (m))", "(define-module (m))\n(module m)",
     "(in-package ::p)", "(defpackage p)\n#lang racket",
     Spaces(DIALECT_DETECTION_BYTES - 4) \o "(ns foo)",
     Spaces(DIALECT_DETECTION_BYTES - 3) \o "(ns foo)",
     Spaces(DIALECT_DETECTION_BYTES) \o "(ns foo)",
     "(defpackage p)" \o Spaces(DIALECT_DETECTION_BYTES) \o "(ns foo)"}

\* a readable file of the filesystem
FileEntry(p, c) == [path |-> p, kind |-> "file", content |-> c, readable |-> TRUE]

\* a directory of the filesystem
DirEntry(p) == [path |-> p, kind |-> "dir", content |-> "", readable |-> FALSE]

\* directory trees: the directory "d" and the paths below it, in listing
\* order; a path that is a prefix of another is a directory
SampleTrees ==
    LET TreeEntry(tree, i) ==
            IF \E j \in 1..Len(tree) : StartsAt(tree[j], 1, tree[i] \o "/")
            THEN DirEntry(tree[i])
            ELSE FileEntry(tree[i], IF tree[i] = "d/.clj" THEN "(in-package p)" ELSE "")
        TreeFs(tree) == <<DirEntry("d")>> \o [i \in 1..Len(tree) |-> TreeEntry(tree, i)]
    IN  {TreeFs(tree) : tree \in
            {<<>>,
             <<"d/sub", "d/sub/a.rkt">>,
             <<"d/b.scm", "d/a.clj">>,
             <<"d/a.scm", "d/b.lisp", "d/c.rkt">>,
             <<"d/README.txt", "d/x.el">>,
             <<"d/x.cljs", "d/y.rkt">>,
             <<"d/pkg.clj", "d/pkg.clj/m.lisp">>,
             <<"d/.clj", "d/z.scm">>,
             <<"d/A.CLJ", "d/z.scm">>}}

\* the filesystems and targets the detector is tried on
DetectCases ==
    {[fs |-> <<FileEntry(p, c)>>, target |-> p] :
        p \in SamplePaths, c \in {"", "(ns foo)", "(defpackage p)", "#lang racket"}}
    \cup {[fs |-> <<FileEntry(p, c)>>, target |-> p] :
        p \in {"a", "a.txt", "a.clj", "a.lisp"}, c \in SampleContents}
    \cup {[fs |-> <<[path |-> p, kind |-> "file", content |-> "(ns foo)",
                    readable |-> FALSE]>>, target |-> p] : p \in {"a", "a.rkt"}}
    \cup {[fs |-> t, target |-> "d"] : t \in SampleTrees}
    \cup {[fs |-> <<>>, target |-> "missing.clj"]}

\* a caller that has not called validate yet
NoCalls == [made |-> 0, args |-> <<>>, last |-> <<>>, kept |-> <<>>]

\* the fields of the state the detector does not touch
IdleCall ==
    /\ entry = "" /\ dialect = None /\ use_tree_sitter = FALSE
    /\ opt = [none |-> TRUE] /\ vr = [none |-> TRUE] /\ result = [none |-> TRUE]
    /\ raised = "" /\ output = <<>> /\ exit_code = -1 /\ spawned = <<>>
    /\ earlier = NoCalls

InitDetect ==
    /\ \E c \in DetectCases : fs = c.fs /\ target = c.target
    /\ pc = "d_start" /\ calls = <<>> /\ d_text = "" /\ d_out = None
    /\ IdleCall

\* a call of detect_dialect_from_extension(target)
DetectExt ==
    /\ pc = "d_start"
    /\ pc' = "d_ext"
    /\ d_out' = detect_dialect_from_extension(target)
    /\ calls' = <<"detect_dialect_from_extension">>
    /\ UNCHANGED <<earlier, fs, spawned, entry, target, dialect, use_tree_sitter, opt, vr, result,
                   raised, output, exit_code, d_text>>

\* a call of detect_dialect_from_content on the whole content of the target
DetectContent ==
    /\ pc = "d_start"
    /\ IsFile(fs, target)
    /\ pc' = "d_content"
    /\ d_text' = EntryOf(fs, target).content
    /\ d_out' = detect_dialect_from_content(EntryOf(fs, target).content)
    /\ calls' = <<"detect_dialect_from_content">>
    /\ UNCHANGED <<earlier, fs, spawned, entry, target, dialect, use_tree_sitter, opt, vr, result,
                   raised, output, exit_code>>

\* a call of detect_dialect(target)
DetectDialect ==
    /\ pc = "d_start"
    /\ pc' = "d_dialect"
    /\ d_out' = detect_dialect(fs, target).dialect
    /\ calls' = detect_dialect(fs, target).called
    /\ UNCHANGED <<earlier, fs, spawned, entry, target, dialect, use_tree_sitter, opt, vr, result,
                   raised, output, exit_code, d_text>>

NextDetect == DetectExt \/ DetectContent \/ DetectDialect

SpecDetect == InitDetect /\ [][NextDetect]_vars

-----------------------------------------------------------------------------
(* The two output parsers of validate_common_lisp.py called on their own,   *)
(* d_text the text handed in, d_out the list returned.                      *)

\* the outputs the parsers are tried on: at most MaxOut lines, in any order,
\* of what sblint and what sbcl may print
ParseCases ==
    LET SblintLines ==
            {"a.lisp:3:7: undefined variable: X",
             "a.lisp:1:0: WARNING: unused X",
             "a.lisp:2:1: line too long",
             "a.lisp:4:2: warning: Unbound function F",
             "a.lisp:5:1: STYLE-WARNING: redefining F",
             "a.lisp:6:3: Read Error at 12",
             "no position: error",
             ""}
        SbclLines ==
            {"debugger invoked on a SB-INT:SIMPLE-READER-ERROR: unmatched close parenthesis",
             "  Line: 3, Column: 7 Type HELP for debugger help, or (SB-EXT:EXIT) to exit",
             "WARNING: unused X",
             "STYLE-WARNING: redefining F",
             "; compilation NOTE: deleting unreachable code",
             "debugger invoked on a SB-INT:SIMPLE-READER-ERROR:",
             "  in form (foo)",
             "; caught an error",
             ""}
        Texts(lines) == {Join(ls, "\n") : ls \in UNION {[1..n -> lines] : n \in 0..MaxOut}}
    IN  Texts(SblintLines) \cup Texts(SbclLines)

InitParse ==
    /\ d_text \in ParseCases
    /\ fs = <<>> /\ target = "a.lisp"
    /\ pc = "p_start" /\ calls = <<>> /\ d_out = None
    /\ IdleCall

\* a call of parse_sblint_output(d_text)
ParseSblint ==
    /\ pc = "p_start"
    /\ pc' = "p_sblint"
    /\ d_out' = parse_sblint_output(d_text)
    /\ calls' = <<"parse_sblint_output">>
    /\ UNCHANGED <<earlier, fs, spawned, entry, target, dialect, use_tree_sitter, opt, vr, result,
                   raised, output, exit_code, d_text>>

\* a call of parse_sbcl_output(d_text, target)
ParseSbcl ==
    /\ pc = "p_start"
    /\ pc' = "p_sbcl"
    /\ d_out' = parse_sbcl_output(d_text, target)
    /\ calls' = <<"parse_sbcl_output">>
    /\ UNCHANGED <<earlier, fs, spawned, entry, target, dialect, use_tree_sitter, opt, vr, result,
                   raised, output, exit_code, d_text>>

NextParse == ParseSblint \/ ParseSbcl

SpecParse == InitParse /\ [][NextParse]_vars

-----------------------------------------------------------------------------
(* The program: main, validate and the four adapters, each external process *)
(* a step.  pc is where the call stands, entry the function that was        *)
(* called, calls the functions and tools invoked so far, vr the adapter's   *)
(* result, result the orchestrator's.                                       *)

MainFs ==
    <<FileEntry("a.clj", "(ns a)\n(defn f [x]\n  (let [y (inc x)]\n    (println y))\n;; end"),
      FileEntry("n.txt", "hello"),
      DirEntry("d"),
      FileEntry("d/x.clj", "(ns x)"),
      FileEntry("d/y.cljs", "(ns y)")>>

\* the keyword arguments the adapters default to
DefaultOpt ==
    [use_joker |-> TRUE, use_raco |-> TRUE, scheme_dialect |-> "guile",
     use_sbcl |-> TRUE, use_python |-> TRUE]

\* the targets and keyword arguments of the adapters called on their own
AdapterTargets == {"a.clj", "d"}

AdapterCalls ==
    {[name |-> "validate_clojure", opt |-> [DefaultOpt EXCEPT !.use_joker = b]] :
        b \in BOOLEAN}
    \cup {[name |-> "validate_scheme",
           opt |-> [DefaultOpt EXCEPT !.use_raco = b, !.scheme_dialect = sd]] :
            b \in BOOLEAN, sd \in SchemeDialects}
    \cup {[name |-> "validate_common_lisp", opt |-> [DefaultOpt EXCEPT !.use_sbcl = b]] :
            b \in BOOLEAN}
    \cup {[name |-> "validate_tree_sitter", opt |-> [DefaultOpt EXCEPT !.use_python = b]] :
            b \in BOOLEAN}

\* a result dict whose tools_used list is one object shared by every call, as
\* a module-level list or a mutable default argument would be
FirstResult_shared_tools_used(name, tgt) ==
    LET Shared(tools) ==
            IF "summary" \in DOMAIN vr THEN vr.summary.tools_used \o tools ELSE tools
        Empty(dialect_name, tools) ==
            [target |-> tgt, dialect |-> dialect_name, findings |-> <<>>,
             summary |-> [total_errors |-> 0, total_warnings |-> 0,
                          tools_used |-> Shared(tools)]]
    IN  IF name = "validate_clojure" THEN Empty("clojure", <<>>)
        ELSE IF name = "validate_scheme" THEN Empty("racket/scheme", <<>>)
        ELSE IF name = "validate_common_lisp" THEN Empty("common-lisp", <<>>)
        ELSE Empty("tree-sitter", <<"tree-sitter">>)

\* the result dict an adapter builds before it runs a tool
FirstResult(name, tgt) ==
    LET Empty(dialect_name, tools) ==
            [target |-> tgt, dialect |-> dialect_name, findings |-> <<>>,
             summary |-> [total_errors |-> 0, total_warnings |-> 0, tools_used |-> tools]]
    IN  IF name = "validate_clojure" THEN Empty("clojure", <<>>)
        ELSE IF name = "validate_scheme" THEN Empty("racket/scheme", <<>>)
        ELSE IF name = "validate_common_lisp" THEN Empty("common-lisp", <<>>)
        ELSE Empty("tree-sitter", <<"tree-sitter">>)

\* where an adapter starts
FirstPc(name, o) ==
    IF name = "validate_clojure" THEN "kondo"
    ELSE IF name = "validate_scheme" THEN "raco_check"
    ELSE IF name = "validate_common_lisp" THEN "sblint"
    ELSE IF o.use_python THEN "ts_python"
    ELSE "ts_check"

Init ==
    /\ fs = MainFs
    /\ pc = "idle"
    /\ target = ""
    /\ calls = <<>>
    /\ d_text = ""
    /\ d_out = None
    /\ IdleCall

\* main, lines 327-338: no argument, the usage text and exit code 1
MainUsage ==
    /\ pc = "idle"
    /\ pc' = "done"
    /\ entry' = "main"
    /\ exit_code' = 1
    /\ UNCHANGED <<earlier, fs, spawned, target, dialect, use_tree_sitter, opt, vr, result, calls,
                   raised, output, d_text, d_out>>

\* main, lines 340-361: the arguments parsed and validate called
Main(t, d, flag) ==
    /\ pc = "idle"
    /\ pc' = "validate"
    /\ entry' = "main"
    /\ target' = t
    /\ dialect' = d
    /\ use_tree_sitter' = flag
    /\ calls' = <<"validate">>
    /\ UNCHANGED <<earlier, fs, spawned, opt, vr, result, raised, output, exit_code, d_text, d_out>>

\* validate, lines 212-265 up to the adapter's call
Validate ==
    /\ pc = "validate"
    /\ IF ~Exists(fs, target)
       THEN /\ result' = NotFoundResult(target)
            /\ pc' = ValidateReturnPc
            /\ UNCHANGED <<dialect, opt, vr, calls>>
       ELSE LET auto == dialect \in {None, ""}
                det == detect_dialect(fs, target)
                d == IF auto THEN det.dialect ELSE dialect
                seen == IF auto THEN calls \o <<"detect_dialect">> \o det.called ELSE calls
                name == Route(use_tree_sitter, d)
            IN  /\ dialect' = d
                /\ IF name = ""
                   THEN /\ result' = UnsupportedResult(target, d)
                        /\ pc' = ValidateReturnPc
                        /\ calls' = seen
                        /\ UNCHANGED <<opt, vr>>
                   ELSE /\ result' = BaseResult(target, d)
                        /\ pc' = FirstPc(name, DefaultOpt)
                        /\ calls' = Append(seen, name)
                        /\ opt' = DefaultOpt
                        /\ vr' = FirstResult(name, target)
    /\ UNCHANGED <<earlier, fs, spawned, entry, target, use_tree_sitter, raised, output, exit_code,
                   d_text, d_out>>

\* an adapter called on its own
CallAdapter(c, t) ==
    /\ pc = "idle"
    /\ pc' = FirstPc(c.name, c.opt)
    /\ entry' = c.name
    /\ target' = t
    /\ opt' = c.opt
    /\ vr' = FirstResult(c.name, t)
    /\ calls' = <<c.name>>
    /\ UNCHANGED <<earlier, fs, spawned, dialect, use_tree_sitter, result, raised, output, exit_code,
                   d_text, d_out>>

\* validate_clojure, lines 197-209, and lines 238-241 when joker is not used
RunCljKondo(proc) ==
    /\ pc = "kondo"
    /\ calls' = Append(calls, "clj-kondo")
    /\ LET r == ClojureAfterKondo(vr, run_clj_kondo(proc))
       IN  IF opt.use_joker
           THEN vr' = r /\ pc' = "joker"
           ELSE vr' = SortedResult(r) /\ pc' = ReturnPc
    /\ spawned' = Append(spawned, Spawn("clj-kondo", proc))
    /\ UNCHANGED <<earlier, fs, entry, target, dialect, use_tree_sitter, opt, result, raised,
                   output, exit_code, d_text, d_out>>

\* what the spawns of one run_joker can do: one outcome per file linted
JokerRuns ==
    UNION {[1..Len(JokerFiles(MainFs, t)) -> JokerProcs] : t \in KnownTargets}

\* validate_clojure, lines 211-241: joker on each file, then the sort
RunJoker(procs) ==
    /\ pc = "joker"
    /\ Len(procs) = Len(JokerFiles(fs, target))
    /\ calls' = calls \o [i \in 1..JokerSpawns(procs) |-> "joker"]
    /\ vr' = SortedResult(ClojureAfterJoker(vr, run_joker(target, procs)))
    /\ pc' = ReturnPc
    /\ spawned' = spawned \o [i \in 1..JokerSpawns(procs) |-> Spawn("joker", procs[i])]
    /\ UNCHANGED <<earlier, fs, entry, target, dialect, use_tree_sitter, opt, result, raised,
                   output, exit_code, d_text, d_out>>

\* validate_scheme, line 341: raco looked for, unless use_raco is off
SchemeCheckRaco(proc) ==
    /\ pc = "raco_check"
    /\ IF ~opt.use_raco
       THEN /\ pc' = "fallback"
            /\ UNCHANGED <<calls, raised>>
       ELSE /\ calls' = Append(calls, "raco version")
            /\ IF check_raco_available(proc) = "raise"
               THEN raised' = "PermissionError" /\ pc' = RaisePc
               ELSE /\ pc' = IF check_raco_available(proc) = "True"
                             THEN "raco_expand" ELSE "fallback"
                    /\ UNCHANGED raised
    /\ spawned' = IF opt.use_raco THEN Append(spawned, Spawn("raco version", proc))
                   ELSE spawned
    /\ UNCHANGED <<earlier, fs, entry, target, dialect, use_tree_sitter, opt, vr, result,
                   output, exit_code, d_text, d_out>>

\* validate_scheme, lines 346-348
RunRacoExpand(proc) ==
    /\ pc = "raco_expand"
    /\ pc' = "raco_review"
    /\ calls' = Append(calls, "raco expand")
    /\ vr' = SchemeAfterRaco(vr, "raco-expand", run_raco_expand[proc, target])
    /\ spawned' = Append(spawned, Spawn("raco expand", proc))
    /\ UNCHANGED <<earlier, fs, entry, target, dialect, use_tree_sitter, opt, result, raised,
                   output, exit_code, d_text, d_out>>

\* validate_scheme, lines 351-354
RunRacoReview(proc) ==
    /\ pc = "raco_review"
    /\ pc' = "raco_warn"
    /\ calls' = Append(calls, "raco review")
    /\ vr' = SchemeAfterRaco(vr, "raco-review", run_raco_review[proc, target])
    /\ spawned' = Append(spawned, Spawn("raco review", proc))
    /\ UNCHANGED <<earlier, fs, entry, target, dialect, use_tree_sitter, opt, result, raised,
                   output, exit_code, d_text, d_out>>

\* validate_scheme, lines 357-360 and 368-378
RunRacoWarn(proc) ==
    /\ pc = "raco_warn"
    /\ pc' = ReturnPc
    /\ calls' = Append(calls, "raco warn")
    /\ vr' = SchemeFinish(SchemeAfterRaco(vr, "raco-warn", run_raco_warn[proc, target]))
    /\ spawned' = Append(spawned, Spawn("raco warn", proc))
    /\ UNCHANGED <<earlier, fs, entry, target, dialect, use_tree_sitter, opt, result, raised,
                   output, exit_code, d_text, d_out>>

\* validate_scheme, lines 362-378: the fallback interpreter, spawned when the
\* dialect names one
RunFallback(proc) ==
    /\ pc = "fallback"
    /\ pc' = ReturnPc
    /\ calls' = IF opt.scheme_dialect \in FallbackValidators
                THEN Append(calls, opt.scheme_dialect) ELSE calls
    /\ vr' = SchemeFinish(SchemeAfterFallback(vr, opt.scheme_dialect,
                 run_fallback_scheme_validator[proc, target, opt.scheme_dialect]))
    /\ spawned' = IF opt.scheme_dialect \in FallbackValidators
                   THEN Append(spawned, Spawn(opt.scheme_dialect, proc)) ELSE spawned
    /\ UNCHANGED <<earlier, fs, entry, target, dialect, use_tree_sitter, opt, result, raised,
                   output, exit_code, d_text, d_out>>

\* validate_common_lisp, lines 283-298, and lines 322-325 when sbcl is not run
RunSblint(proc) ==
    /\ pc = "sblint"
    /\ calls' = Append(calls, "sblint")
    /\ LET st == CommonLispAfterSblint(vr, run_sblint[proc, target])
       IN  IF st.raised # ""
           THEN vr' = st.r /\ raised' = st.raised /\ pc' = RaisePc
           ELSE /\ UNCHANGED raised
                /\ IF opt.use_sbcl /\ IsFile(fs, target)
                   THEN vr' = st.r /\ pc' = "sbcl"
                   ELSE vr' = SortedResult(st.r) /\ pc' = ReturnPc
    /\ spawned' = Append(spawned, Spawn("sblint", proc))
    /\ UNCHANGED <<earlier, fs, entry, target, dialect, use_tree_sitter, opt, result,
                   output, exit_code, d_text, d_out>>

\* validate_common_lisp, lines 301-325
RunSbcl(proc) ==
    /\ pc = "sbcl"
    /\ calls' = Append(calls, "sbcl")
    /\ LET st == CommonLispAfterSbcl(vr, run_sbcl_compile_check[proc, target])
       IN  IF st.raised # ""
           THEN vr' = st.r /\ raised' = st.raised /\ pc' = RaisePc
           ELSE vr' = SortedResult(st.r) /\ pc' = ReturnPc /\ UNCHANGED raised
    /\ spawned' = Append(spawned, Spawn("sbcl", proc))
    /\ UNCHANGED <<earlier, fs, entry, target, dialect, use_tree_sitter, opt, result,
                   output, exit_code, d_text, d_out>>

\* validate_tree_sitter, lines 284-286 and 303: the Python library tried
TreeSitterPython(env) ==
    /\ pc = "ts_python"
    /\ calls' = Append(calls, "validate_with_python_library")
    /\ LET python_errors == validate_with_python_library(fs, target, env)
       IN  IF PythonFailed(python_errors)
           THEN vr' = vr /\ pc' = "ts_check"
           ELSE /\ vr' = Counted([vr EXCEPT !.findings = python_errors])
                /\ pc' = ReturnPc
    /\ spawned' = Append(spawned,
                       Spawn("validate_with_python_library",
                             [kind |-> PythonKind(validate_with_python_library(fs, target, env)),
                              env |-> env]))
    /\ UNCHANGED <<earlier, fs, entry, target, dialect, use_tree_sitter, opt, result, raised,
                   output, exit_code, d_text, d_out>>

\* validate_tree_sitter, lines 288-292 and 306-310: the CLI looked for
TreeSitterCheck(proc) ==
    /\ pc = "ts_check"
    /\ calls' = Append(calls, "tree-sitter --version")
    /\ IF check_tree_sitter_available(proc) = "raise"
       THEN raised' = "PermissionError" /\ pc' = RaisePc /\ UNCHANGED vr
       ELSE /\ UNCHANGED raised
            /\ IF check_tree_sitter_available(proc) = "False"
               THEN /\ vr' = AddWarning(vr,
                                IF opt.use_python
                                THEN "tree-sitter not available (neither CLI nor Python library)"
                                ELSE "tree-sitter CLI not found")
                    /\ pc' = ReturnPc
               ELSE vr' = vr /\ pc' = "ts_parse"
    /\ spawned' = Append(spawned, Spawn("tree-sitter --version", proc))
    /\ UNCHANGED <<earlier, fs, entry, target, dialect, use_tree_sitter, opt, result,
                   output, exit_code, d_text, d_out>>

\* validate_tree_sitter, lines 294-301 and 312-329: the CLI's parse
TreeSitterParse(proc) ==
    /\ pc = "ts_parse"
    /\ pc' = ReturnPc
    /\ calls' = Append(calls, "tree-sitter parse")
    /\ LET cli_result == run_tree_sitter_parse(proc)
       IN  vr' = Counted(
                    IF "error" \in DOMAIN cli_result
                    THEN AddWarning(vr, cli_result.error)
                    ELSE [vr EXCEPT !.findings =
                             parse_tree_sitter_output[proc.stdout, target]])
    /\ spawned' = Append(spawned, Spawn("tree-sitter parse", proc))
    /\ UNCHANGED <<earlier, fs, entry, target, dialect, use_tree_sitter, opt, result, raised,
                   output, exit_code, d_text, d_out>>

\* validate, lines 255-276: the adapter has returned
ValidateMerge ==
    /\ pc = "merge"
    /\ pc' = ValidateReturnPc
    /\ result' = MergeResults(WithFallbackWarning(result, use_tree_sitter, dialect), vr)
    /\ UNCHANGED <<earlier, fs, spawned, entry, target, dialect, use_tree_sitter, opt, vr, calls, raised,
                   output, exit_code, d_text, d_out>>

\* main, line 364: print(format_output(result, output_format))
FormatOutput(output_format) ==
    /\ pc = "format"
    /\ LET out == format_output(result, output_format)
       IN  IF out.raised # ""
           THEN /\ raised' = out.raised
                /\ output' = <<[format |-> out.format]>>
                /\ pc' = "crash"
           ELSE /\ output' = <<out>>
                /\ pc' = "exit"
                /\ UNCHANGED raised
    /\ UNCHANGED <<earlier, fs, spawned, entry, target, dialect, use_tree_sitter, opt, vr, result, calls,
                   exit_code, d_text, d_out>>

\* main, lines 366-373: sys.exit with the result's code
Exit ==
    /\ pc = "exit"
    /\ pc' = "done"
    /\ exit_code' = ExitCode(result)
    /\ UNCHANGED <<earlier, fs, spawned, entry, target, dialect, use_tree_sitter, opt, vr, result, calls,
                   raised, output, d_text, d_out>>

\* an exception nothing in main catches: the traceback and exit code 1
Crash ==
    /\ pc = "crash"
    /\ pc' = "done"
    /\ exit_code' = 1
    /\ UNCHANGED <<earlier, fs, spawned, entry, target, dialect, use_tree_sitter, opt, vr, result, calls,
                   raised, output, d_text, d_out>>

Next ==
    \/ MainUsage
    \/ \E t \in KnownTargets, flag \in BOOLEAN,
          d \in {None, "", DIALECT_CLOJURE, DIALECT_RACKET, DIALECT_SCHEME, DIALECT_COMMON_LISP,
                  DIALECT_ELISP, DIALECT_UNKNOWN, "fortran"} : Main(t, d, flag)
    \/ Validate
    \/ \E c \in AdapterCalls, t \in AdapterTargets : CallAdapter(c, t)
    \/ \E proc \in KondoProcs : RunCljKondo(proc)
    \/ \E procs \in JokerRuns : RunJoker(procs)
    \/ \E proc \in RacoVersionProcs : SchemeCheckRaco(proc)
    \/ \E proc \in RacoExpandProcs : RunRacoExpand(proc)
    \/ \E proc \in RacoReviewProcs : RunRacoReview(proc)
    \/ \E proc \in RacoWarnProcs : RunRacoWarn(proc)
    \/ \E proc \in FallbackProcs : RunFallback(proc)
    \/ \E proc \in SblintProcs : RunSblint(proc)
    \/ \E proc \in SbclProcs : RunSbcl(proc)
    \/ \E env \in PythonEnvs : TreeSitterPython(env)
    \/ \E proc \in TreeSitterVersionProcs : TreeSitterCheck(proc)
    \/ \E proc \in TreeSitterProcs : TreeSitterParse(proc)
    \/ ValidateMerge
    \/ \E output_format \in {"json", "text", "summary"} : FormatOutput(output_format)
    \/ Exit
    \/ Crash

Spec == Init /\ [][Next]_vars

-----------------------------------------------------------------------------
(* Properties of the adapters and of validate.                              *)

\* the four adapters validate routes to
AdapterNames ==
    {"validate_clojure", "validate_scheme", "validate_common_lisp", "validate_tree_sitter"}

\* the dialect names validate's if/elif chain has a branch for
RecognizedDialects ==
    {DIALECT_CLOJURE, DIALECT_RACKET, DIALECT_SCHEME, DIALECT_COMMON_LISP, DIALECT_ELISP,
     DIALECT_UNKNOWN}

\* the adapters called so far, in call order
AdaptersCalled == SelectSeq(calls, LAMBDA c : c \in AdapterNames)

\* validate has merged an adapter's result into its own and returned it
ValidateReturned ==
    /\ entry = "main"
    /\ "detected_dialect" \in DOMAIN result
    /\ pc \in {"format", "exit"} \/ (pc \in {"crash", "done"} /\ output # <<>>)

\* the keys of a complete finding
FindingKeys == {"file", "line", "col", "severity", "message", "tool"}

\* C1: whatever its external tools do (not found, timeout, any other error of
\* the spawn, any exit code and output), a call of an adapter returns normally,
\* and the result it returns holds a warning for each tool that could not be
\* run.  The code does not keep this: see C1_SblintTimeoutEscapes.
C1_ToolFailuresBecomeWarnings ==
    entry \in AdapterNames =>
        /\ pc # "raised"
        /\ pc = "returned" =>
              Cardinality({i \in 1..Len(spawned) : spawned[i].kind \in Failures})
                  <= Len(WarningsOf(vr))

\* C1, the failing case: sblint times out, its three-key failure record is
\* taken for a finding, and reading its severity raises a KeyError that
\* leaves validate_common_lisp
C1_SblintTimeoutEscapes ==
    /\ entry = "validate_common_lisp"
    /\ pc = "raised"
    /\ raised = "KeyError: 'severity'"
    /\ Len(spawned) = 1
    /\ spawned[1].tool = "sblint"
    /\ spawned[1].kind = "timeout"

\* C2: in every result an adapter or validate returns, every element of
\* findings has the keys file, line, col, severity, message and tool; no
\* record of a tool failure is among the findings.  The code does not keep
\* this: see C2_ErrorRecordInFindings.
C2_FindingsAreComplete ==
    /\ pc \in {"returned", "merge"} =>
          \A i \in 1..Len(vr.findings) : FindingKeys \subseteq DOMAIN vr.findings[i]
    /\ ValidateReturned =>
          \A i \in 1..Len(result.findings) : FindingKeys \subseteq DOMAIN result.findings[i]

\* C2, the failing case: the Python library is missing, and the record of
\* that failure, a dict holding only "error", is the one finding of the
\* result validate_tree_sitter returns
C2_ErrorRecordInFindings ==
    /\ entry = "validate_tree_sitter"
    /\ pc = "returned"
    /\ Len(vr.findings) = 1
    /\ DOMAIN vr.findings[1] = {"error"}
    /\ WarningsOf(vr) = <<>>

\* C3: when the target does not exist, whatever the dialect asked for and the
\* tree-sitter flag, the result validate returns has an error key, no finding
\* and zero counts, and validate has called neither the detector nor an
\* adapter, nor has any tool been spawned.
C3_MissingTargetIsFatal ==
    (entry = "main" /\ pc \in {"format", "exit", "crash", "done"} /\ calls # <<>>
        /\ ~Exists(fs, target)) =>
        /\ "error" \in DOMAIN result
        /\ result.findings = <<>>
        /\ result.summary.total_errors = 0
        /\ result.summary.total_warnings = 0
        /\ calls = <<"validate">>
        /\ spawned = <<>>

\* C3, the case: validate has returned for a missing target with a dialect
\* asked for and the flag set
C3_MissingTargetSeen ==
    /\ entry = "main"
    /\ pc = "format"
    /\ target = "zz.clj"
    /\ dialect = DIALECT_CLOJURE
    /\ use_tree_sitter
    /\ result.error = "Target not found: zz.clj"

\* C4 as first stated: for an existing target and a dialect asked for that
\* is none of the recognized six, validate returns at once a result with an
\* error key and calls no adapter, whatever the tree-sitter flag.  This fails:
\* with the flag set the universal adapter is called whatever the dialect, and
\* an empty dialect string is auto-detected.
C4_UnsupportedDialectIsFatal ==
    [][(pc = "validate" /\ Exists(fs, target)
            /\ dialect \notin RecognizedDialects \cup {None}) =>
        (pc' = "format" /\ "error" \in DOMAIN result'
            /\ SelectSeq(calls', LAMBDA c : c \in AdapterNames) = <<>>)]_vars

\* C4: for an existing target, a dialect asked for that is not empty and is
\* none of the recognized six, and the tree-sitter flag not set, validate
\* returns at once a result with an error key that names the dialect, having
\* called no detector and no adapter and spawned no tool.
C4_UnsupportedDialectIsFatalWithoutFlag ==
    [][(pc = "validate" /\ Exists(fs, target) /\ ~use_tree_sitter
            /\ dialect \notin RecognizedDialects \cup {None, ""}) =>
        (/\ pc' = "format"
         /\ "error" \in DOMAIN result'
         /\ result'.error = "Unsupported dialect: " \o dialect
         /\ calls' = <<"validate">>
         /\ spawned' = <<>>)]_vars

\* C4, the case: validate has returned the error for a dialect it has no
\* branch for
C4_UnsupportedDialectSeen ==
    /\ entry = "main"
    /\ pc = "format"
    /\ Exists(fs, target)
    /\ ~use_tree_sitter
    /\ dialect = "fortran"
    /\ result.error = "Unsupported dialect: fortran"
    /\ calls = <<"validate">>

\* C5: for an existing target, with the tree-sitter flag set or a recognized
\* dialect, validate calls exactly one adapter: the universal one when the
\* flag is set, else the Clojure adapter for clojure, the Scheme adapter for
\* racket and scheme, the Common Lisp adapter for common-lisp and the
\* universal adapter for elisp and unknown.
C5_OneAdapterByRoute ==
    (entry = "main" /\ pc \notin {"idle", "validate"} /\ Exists(fs, target)
        /\ (use_tree_sitter \/ dialect \in RecognizedDialects)) =>
        AdaptersCalled =
            <<IF use_tree_sitter THEN "validate_tree_sitter"
              ELSE IF dialect = DIALECT_CLOJURE THEN "validate_clojure"
              ELSE IF dialect \in {DIALECT_RACKET, DIALECT_SCHEME} THEN "validate_scheme"
              ELSE IF dialect = DIALECT_COMMON_LISP THEN "validate_common_lisp"
              ELSE "validate_tree_sitter">>

\* C5, the case: the flag set and the dialect clojure, the universal adapter
\* called and returned
C5_FlagWinsSeen ==
    /\ entry = "main"
    /\ pc = "merge"
    /\ use_tree_sitter
    /\ dialect = DIALECT_CLOJURE
    /\ AdaptersCalled = <<"validate_tree_sitter">>

\* C6: in the result validate returns, the warnings are the orchestrator's
\* own, which is the fallback warning when the dialect is unknown and the
\* tree-sitter flag is not set and nothing otherwise, followed by the
\* adapter's warnings, all of them and in the adapter's order.  (Through
\* validate the universal adapter is called with use_python set; the warnings
\* of its CLI branch are then out of reach, so a result with the fallback
\* warning holds no adapter warning.)
C6_WarningsAppended ==
    ValidateReturned =>
        WarningsOf(result) =
            (IF ~use_tree_sitter /\ dialect = DIALECT_UNKNOWN
             THEN <<"Could not auto-detect dialect, using tree-sitter fallback">>
             ELSE <<>>)
            \o WarningsOf(vr)

\* C6, the case: a target whose dialect is not detected, the flag not set,
\* and the fallback warning in the result returned
C6_FallbackWarningSeen ==
    /\ ValidateReturned
    /\ target = "n.txt"
    /\ ~use_tree_sitter
    /\ dialect = DIALECT_UNKNOWN
    /\ calls[2] = "detect_dialect"
    /\ "warnings" \in DOMAIN result
    /\ "Could not auto-detect dialect, using tree-sitter fallback"
          \in {result.warnings[i] : i \in 1..Len(result.warnings)}

\* C7: the findings and the summary of a result validate returns from an
\* adapter are the adapter's own: the same findings in the same order, the
\* same counts and the same tools_used.
C7_FindingsAndSummaryVerbatim ==
    ValidateReturned =>
        /\ result.findings = vr.findings
        /\ result.summary = vr.summary

\* C7, the case: an adapter returned two findings or more, not all the same,
\* and validate returned them
C7_SeveralFindingsSeen ==
    /\ ValidateReturned
    /\ Len(vr.findings) >= 2
    /\ vr.findings[1] # vr.findings[2]
    /\ result.findings = vr.findings
    /\ Len(result.summary.tools_used) >= 1

HasExtension(path, ext) ==
    /\ Len(path) > Len(ext)
    /\ Lower(SubSeq(path, Len(path) - Len(ext) + 1, Len(path))) = ext
    /\ SubSeq(path, Len(path) - Len(ext), Len(path) - Len(ext)) # "/"

\* the dialect documented for the path's extension, None when there is none
DocumentedDialect(path) ==
    IF \E e \in {".clj", ".cljs", ".cljc", ".edn"} : HasExtension(path, e)
    THEN "clojure"
    ELSE IF HasExtension(path, ".rkt") THEN "racket"
    ELSE IF \E e \in {".scm", ".ss"} : HasExtension(path, e) THEN "scheme"
    ELSE IF \E e \in {".lisp", ".cl", ".asd"} : HasExtension(path, e) THEN "common-lisp"
    ELSE IF HasExtension(path, ".el") THEN "elisp"
    ELSE None

\* C9: detect_dialect_from_extension returns, whatever the letter case of the
\* path's final suffix, clojure for .clj, .cljs, .cljc and .edn, racket for
\* .rkt, scheme for .scm and .ss, common-lisp for .lisp, .cl and .asd, elisp
\* for .el, and None for every other suffix and for a path without suffix.
C9_ExtensionTable ==
    pc = "d_ext" => d_out = DocumentedDialect(target)

\* C9, the case: a suffix in upper case, below a directory whose name has a
\* suffix of the table too
C9_UpperCaseSuffixSeen ==
    /\ pc = "d_ext"
    /\ target = "lib.rkt/x.LISP"
    /\ d_out = "common-lisp"

\* C10: for a file whose extension is in the table, detect_dialect returns
\* the table's dialect whatever the content, and has not called the content
\* heuristics; whenever it has called them, the extension lookup on the path
\* it looked at gave no dialect.
C10_ExtensionBeforeContent ==
    pc = "d_dialect" =>
        /\ (IsFile(fs, target) /\ DocumentedDialect(target) # None) =>
              /\ d_out = DocumentedDialect(target)
              /\ calls = <<"detect_dialect_from_extension">>
        /\ (\E i \in 1..Len(calls) : calls[i] = "detect_dialect_from_content") =>
              DocumentedDialect(DetectionPath(fs, target)) = None

\* C10, the case: a .lisp file whose content is a Clojure ns form
C10_ContentOfOtherDialectSeen ==
    /\ pc = "d_dialect"
    /\ target = "a.lisp"
    /\ IsFile(fs, target)
    /\ EntryOf(fs, target).content = "(ns foo)"
    /\ detect_dialect_from_content(EntryOf(fs, target).content) = DIALECT_CLOJURE
    /\ d_out = DIALECT_COMMON_LISP

\* C11: detect_dialect_from_content returns the dialect of the first rule, in
\* this order, that the content matches: a line that starts, after optional
\* whitespace, with "(ns" and whitespace gives clojure; "::" anywhere, or a
\* "[" followed on its line by ":as" and whitespace, gives clojure; a line
\* starting with "#lang", whitespace and "racket" gives racket; a line
\* starting with "(module" and whitespace gives racket; one starting with
\* "(defpackage", "(in-package" or "(defsystem" and whitespace gives
\* common-lisp; one starting with "(define-module" and whitespace gives
\* scheme; content that matches no rule gives None.
C11_ContentRulesInOrder ==
    pc = "d_content" =>
        LET c == d_text
            \* only whitespace lies between position j and the start of its line
            LeadsLine(j) ==
                \A k \in (MaxOr0({m \in 1..(j - 1) : Ch(c, m) = "\n"}) + 1)..(j - 1) :
                    IsSpace(Ch(c, k))
            Form(lit) ==
                \E j \in 1..Len(c) :
                    /\ StartsAt(c, j, lit)
                    /\ IsSpace(Ch(c, j + Len(lit)))
                    /\ LeadsLine(j)
            Lang ==
                \E j \in 1..Len(c) :
                    /\ StartsAt(c, j, "#lang")
                    /\ LeadsLine(j)
                    /\ \E k \in (j + 6)..Len(c) :
                          /\ StartsAt(c, k, "racket")
                          /\ \A m \in (j + 5)..(k - 1) : IsSpace(Ch(c, m))
            As ==
                \E i \in 1..Len(c) :
                    /\ Ch(c, i) = "["
                    /\ \E k \in (i + 1)..Len(c) :
                          /\ StartsAt(c, k, ":as")
                          /\ IsSpace(Ch(c, k + 3))
                          /\ \A m \in (i + 1)..(k - 1) : Ch(c, m) # "\n"
            DoubleColon == \E j \in 1..Len(c) : StartsAt(c, j, "::")
        IN  d_out =
                IF Form("(ns") THEN "clojure"
                ELSE IF DoubleColon \/ As THEN "clojure"
                ELSE IF Lang THEN "racket"
                ELSE IF Form("(module") THEN "racket"
                ELSE IF Form("(defpackage") \/ Form("(in-package") \/ Form("(defsystem")
                THEN "common-lisp"
                ELSE IF Form("(define-module") THEN "scheme"
                ELSE None

\* C11, the case: content whose first line matches a Common Lisp rule and
\* whose second line matches the ns rule
C11_EarlierRuleWinsSeen ==
    /\ pc = "d_content"
    /\ d_text = "(defpackage foo)\n(ns foo)"
    /\ d_out = "clojure"

\* C12: for a directory, detect_dialect takes the first file below it, at any
\* depth, whose name ends with ".clj", or when there is none with ".lisp",
\* then ".rkt", then ".scm", and returns what detection gives on that file;
\* it returns unknown when no file below the directory has one of the four
\* extensions.  The code does not keep this: see C12_DirectoryTakenForFile.
C12_DirectoryDetection ==
    (pc = "d_dialect" /\ IsDir(fs, target)) =>
        LET Exts == <<".clj", ".lisp", ".rkt", ".scm">>
            Has(i, e) ==
                /\ fs[i].kind = "file"
                /\ StartsAt(fs[i].path, 1, target \o "/")
                /\ StartsAt(fs[i].path, Len(fs[i].path) - Len(e) + 1, e)
                /\ Len(PathName(fs[i].path)) >= Len(e)
            FirstWith(e) == MinOr0({i \in 1..Len(fs) : Has(i, e)})
            Best == MinOr0({n \in 1..4 : FirstWith(Exts[n]) # 0})
        IN  d_out = IF Best = 0 THEN "unknown"
                    ELSE detect_dialect(fs, fs[FirstWith(Exts[Best])].path).dialect

\* C12, the failing case: the directory holds a subdirectory named pkg.clj
\* and in it the file m.lisp; rglob("*.clj") lists the subdirectory, which
\* is taken as the detection target, is no file, and gives unknown
C12_DirectoryTakenForFile ==
    /\ pc = "d_dialect"
    /\ target = "d"
    /\ IsDir(fs, "d/pkg.clj")
    /\ IsFile(fs, "d/pkg.clj/m.lisp")
    /\ d_out = "unknown"

-----------------------------------------------------------------------------
(* The Clojure adapter's two tools                                          *)

\* validate_clojure has returned its result, vr
ClojureReturned ==
    /\ pc \in {"returned", "merge"}
    /\ \E i \in 1..Len(calls) : calls[i] = "validate_clojure"

\* the findings clj-kondo printed in this run: the JSON objects of its stdout
KondoReported ==
    LET Of(s) == IF s.kind = "ran" /\ s.proc.out = "object" THEN s.proc.doc.findings ELSE <<>>
        K == {i \in 1..Len(spawned) : spawned[i].tool = "clj-kondo"}
    IN  IF K = {} THEN <<>> ELSE Of(spawned[CHOOSE i \in K : TRUE])

\* the (file, line, col) triples of the lines joker printed in this run
JokerReported ==
    UNION {{<<f.file, f.line, f.col>> :
                f \in {parse_joker_output[spawned[i].proc.stderr][k] :
                          k \in 1..Len(parse_joker_output[spawned[i].proc.stderr])}} :
              i \in {n \in 1..Len(spawned) : spawned[n].tool = "joker" /\ spawned[n].kind = "ran"}}

\* C13: in the result of the Clojure adapter no joker finding is at the
\* (file, line, col) of a clj-kondo finding, and every finding clj-kondo
\* reported is kept: at its location the result has exactly one finding, and
\* it is clj-kondo's, whatever joker reported there.
C13_PrimaryWinsTies ==
    ClojureReturned =>
        LET fnd == vr.findings
            At(file, line, col) ==
                {i \in 1..Len(fnd) : fnd[i].file = file /\ fnd[i].line = line /\ fnd[i].col = col}
        IN  /\ \A i, j \in 1..Len(fnd) :
                   (fnd[i].tool = "joker" /\ fnd[j].tool = "clj-kondo")
                       => <<fnd[i].file, fnd[i].line, fnd[i].col>>
                              # <<fnd[j].file, fnd[j].line, fnd[j].col>>
            /\ \A k \in 1..Len(KondoReported) :
                   LET here == At(KondoReported[k]["filename"], KondoReported[k]["row"],
                                  KondoReported[k]["col"])
                   IN  /\ Cardinality(here) = 1
                       /\ \A i \in here : /\ fnd[i].tool = "clj-kondo"
                                          /\ fnd[i].message = KondoReported[k]["message"]
                                          /\ fnd[i].severity = KondoReported[k]["level"]

\* C13 witness: clj-kondo and joker both reported b.clj:2:1, and the result
\* has one finding there, clj-kondo's
C13_SameLocationFromBothSeen ==
    /\ ClojureReturned
    /\ \E k \in 1..Len(KondoReported) :
           /\ KondoReported[k]["filename"] = "b.clj"
           /\ KondoReported[k]["row"] = 2
           /\ KondoReported[k]["col"] = 1
    /\ <<"b.clj", 2, 1>> \in JokerReported
    /\ Cardinality({i \in 1..Len(vr.findings) :
                       vr.findings[i].file = "b.clj" /\ vr.findings[i].line = 2
                       /\ vr.findings[i].col = 1}) = 1
    /\ \E i \in 1..Len(vr.findings) : vr.findings[i].tool = "joker"

\* findings is in ascending order of (file, line, col): the file compared as
\* a string, the line and the column as numbers
Ascending(findings) ==
    \A i \in 1..(Len(findings) - 1) :
        LET a == findings[i]
            b == findings[i + 1]
        IN  \/ StrLess(a.file, b.file)
            \/ a.file = b.file /\ a.line < b.line
            \/ a.file = b.file /\ a.line = b.line /\ a.col <= b.col

\* C14: the findings list the Clojure adapter returns is in ascending order
\* of (file, line, col), whatever clj-kondo and joker reported.
C14_ClojureFindingsSorted ==
    ClojureReturned => Ascending(vr.findings)

\* C14 witness: clj-kondo reported a.clj:10:1 before a.clj:5:1 and joker
\* reported a.clj:7:2; the result lists lines 5, 7, 10
C14_ReorderedSeen ==
    /\ ClojureReturned
    /\ Len(KondoReported) = 2
    /\ KondoReported[1]["row"] = 10
    /\ KondoReported[2]["row"] = 5
    /\ <<"a.clj", 7, 2>> \in JokerReported
    /\ Len(vr.findings) = 3
    /\ vr.findings[1].line = 5 /\ vr.findings[1].tool = "clj-kondo"
    /\ vr.findings[2].line = 7 /\ vr.findings[2].tool = "joker"
    /\ vr.findings[3].line = 10

\* C15: whichever adapter validate routed to, the findings of the result it
\* returns are in ascending order of (file, line, col).
C15_FindingsSortedOnEveryRoute ==
    (ValidateReturned /\ "findings" \in DOMAIN result) => Ascending(result.findings)

\* C15 witness: validate routed to the tree-sitter adapter, which does not
\* sort, and returned the parse error at 2:1 before the missing node at 2:12
C15_TreeSitterOrderSeen ==
    /\ ValidateReturned
    /\ \E i \in 1..Len(calls) : calls[i] = "validate_tree_sitter"
    /\ "findings" \in DOMAIN result
    /\ Len(result.findings) = 2
    /\ result.findings[1].tool = "tree-sitter"
    /\ <<result.findings[1].line, result.findings[1].col>> = <<2, 1>>
    /\ <<result.findings[2].line, result.findings[2].col>> = <<2, 12>>

-----------------------------------------------------------------------------
(* tools_used                                                               *)

\* the adapter called name has returned its result, vr
AdapterReturned(name) ==
    /\ pc \in {"returned", "merge"}
    /\ \E i \in 1..Len(calls) : calls[i] = name

\* the tool was spawned in this run and ran to its end
RanToEnd(tool) ==
    \E i \in 1..Len(spawned) : spawned[i].tool = tool /\ spawned[i].kind = "ran"

\* the name is in the tools_used list of vr
ListedTool(name) ==
    \E i \in 1..Len(vr.summary.tools_used) : vr.summary.tools_used[i] = name

\* C16: in the Scheme/Racket adapter's result a tool is in tools_used if and
\* only if it was invoked and ran successfully, for raco-expand, raco-review,
\* raco-warn and the fallback interpreter: absent when not found, not
\* installed or timed out, present when it ran and reported nothing.
C16_SchemeToolsUsedIffRan ==
    AdapterReturned("validate_scheme") =>
        /\ ListedTool("raco-expand") <=> RanToEnd("raco expand")
        /\ ListedTool("raco-review") <=> RanToEnd("raco review")
        /\ ListedTool("raco-warn") <=> RanToEnd("raco warn")
        /\ \A d \in SchemeDialects : ListedTool("scheme-" \o d) <=> RanToEnd(d)

\* C16 seen failing both ways: raco expand timed out and is listed, raco
\* review ran, printed nothing, and is not listed
C16_TimedOutListedSilentUnlisted ==
    /\ AdapterReturned("validate_scheme")
    /\ \E i \in 1..Len(spawned) : spawned[i].tool = "raco expand" /\ spawned[i].kind = "timeout"
    /\ ListedTool("raco-expand")
    /\ \E i \in 1..Len(spawned) :
           /\ spawned[i].tool = "raco review" /\ spawned[i].kind = "ran"
           /\ spawned[i].proc.stdout = ""
    /\ ~ListedTool("raco-review")

\* the tool was spawned in this run, every spawn of it ran to its end, and
\* clj-kondo's output was one run_clj_kondo could read
RanSuccessfully(tool) ==
    /\ \E i \in 1..Len(spawned) : spawned[i].tool = tool
    /\ \A i \in 1..Len(spawned) :
           spawned[i].tool = tool =>
               /\ spawned[i].kind = "ran"
               /\ tool = "clj-kondo" => spawned[i].proc.out # "invalid"

\* C17: in the results of the Clojure and Common Lisp adapters tools_used
\* lists exactly the tools that ran successfully, each once, the primary
\* before the secondary; a tool that was not found, timed out or failed with
\* another error is not listed.
C17_ToolsUsedAreTheToolsThatRan ==
    /\ AdapterReturned("validate_clojure") =>
           vr.summary.tools_used = SelectSeq(<<"clj-kondo", "joker">>, RanSuccessfully)
    /\ AdapterReturned("validate_common_lisp") =>
           vr.summary.tools_used = SelectSeq(<<"sblint", "sbcl">>, RanSuccessfully)

\* C17 seen failing: joker timed out on its first file and the Clojure
\* adapter lists it after clj-kondo, which ran
C17_TimedOutJokerListed ==
    /\ AdapterReturned("validate_clojure")
    /\ RanSuccessfully("clj-kondo")
    /\ \E i \in 1..Len(spawned) : spawned[i].tool = "joker" /\ spawned[i].kind = "timeout"
    /\ vr.summary.tools_used = <<"clj-kondo", "joker">>

-----------------------------------------------------------------------------
(* The totals of the summary                                                *)

\* how many findings of the list have the severity
CountSeverity(findings, severity) ==
    Cardinality({i \in 1..Len(findings) :
                    /\ "severity" \in DOMAIN findings[i]
                    /\ findings[i].severity = severity})

\* C18: in every result an adapter returns, total_errors is the number of
\* findings whose severity is error and total_warnings the number whose
\* severity is warning; a joker finding dropped as a duplicate of a clj-kondo
\* finding adds to neither.
C18_TotalsCountFindings ==
    (pc \in {"returned", "merge"} /\ "summary" \in DOMAIN vr) =>
        /\ vr.summary.total_errors = CountSeverity(vr.findings, "error")
        /\ vr.summary.total_warnings = CountSeverity(vr.findings, "warning")

\* C18 witness: clj-kondo and joker both reported an error at b.clj:2:1, and
\* the Clojure adapter's result counts one error
C18_DuplicateNotCountedSeen ==
    /\ ClojureReturned
    /\ <<"b.clj", 2, 1>> \in JokerReported
    /\ Len(KondoReported) = 1
    /\ KondoReported[1]["filename"] = "b.clj"
    /\ KondoReported[1]["level"] = "error"
    /\ vr.summary.total_errors = 1
    /\ CountSeverity(vr.findings, "error") = 1
    /\ vr.summary.tools_used = <<"clj-kondo", "joker">>

-----------------------------------------------------------------------------
(* The text format                                                          *)

\* main has formatted validate's result in the text format, or failed to
FormattedAsText ==
    /\ entry = "main"
    /\ pc \in {"exit", "crash", "done"}
    /\ output # <<>>
    /\ output[1].format = "text"

\* the line of the text format for one finding
FindingLine(f) ==
    "  [" \o Upper(f.severity) \o "] " \o f.file \o ":" \o ToStr(f.line) \o ":"
    \o ToStr(f.col) \o ": " \o f.message

\* text is the text format of the result r: it starts with the target line
\* and the dialect line, and ends with one line per finding in order, the
\* summary line and the tools-used line
TextOf(text, r) ==
    LET head == "Target: " \o r.target \o "\n" \o "Dialect: " \o r.detected_dialect \o "\n"
        tail == Join([i \in 1..Len(r.findings) |-> FindingLine(r.findings[i])]
                     \o <<"",
                          "Summary: " \o ToStr(r.summary.total_errors) \o " errors, "
                             \o ToStr(r.summary.total_warnings) \o " warnings",
                          "Tools used: " \o Join(r.summary.tools_used, ", ")>>,
                     "\n")
    IN  /\ Len(text) >= Len(head) + Len(tail)
        /\ StartsAt(text, 1, head)
        /\ StartsAt(text, Len(text) - Len(tail) + 1, tail)

\* C19: for every result validate returns, the fatal-error results and the
\* results of every adapter route, format_output with the text format does
\* not raise and produces the target line, the dialect line, one line
\* "[SEVERITY] file:line:col: message" per finding, then the summary line and
\* the tools-used line.
C19_TextFormatOfEveryResult ==
    FormattedAsText =>
        /\ raised = ""
        /\ TextOf(output[1].text, result)

\* C19 seen failing: the target does not exist, validate returned its fatal
\* result, and the text format raised KeyError on the missing dialect key
C19_FatalResultRaises ==
    /\ FormattedAsText
    /\ ~Exists(fs, target)
    /\ "error" \in DOMAIN result
    /\ "detected_dialect" \notin DOMAIN result
    /\ raised = "KeyError: 'detected_dialect'"
    /\ pc = "done"
    /\ exit_code = 1

-----------------------------------------------------------------------------
(* A caller that calls validate several times from one interpreter          *)

\* the most calls of validate one caller makes
MaxCalls == 3

\* a caller calls validate(t, d, flag): its first call, or a further call
\* once the last one has returned or raised.  The interpreter is the same,
\* so every variable keeps the value the last call left until the code
\* assigns it; what records this call alone (calls, spawned, raised) starts
\* empty.  The caller remembers the arguments of its last call and one of
\* the calls that returned: its arguments, what its tools did, and the result
\* it got (the filesystem never changes).
Call(t, d, flag, keep) ==
    /\ pc \in {"idle", "returned", "raised"}
    /\ entry \in {"", "validate"}
    /\ earlier.made < MaxCalls
    /\ earlier' = [made |-> earlier.made + 1,
                   args |-> <<t, d, flag>>,
                   last |-> earlier.args,
                   kept |-> IF pc = "returned" /\ ~keep
                            THEN <<[args |-> earlier.args, spawned |-> spawned,
                                    result |-> result]>>
                            ELSE earlier.kept]
    /\ pc' = "validate"
    /\ entry' = "validate"
    /\ target' = t
    /\ dialect' = d
    /\ use_tree_sitter' = flag
    /\ calls' = <<"validate">>
    /\ spawned' = <<>>
    /\ raised' = ""
    /\ UNCHANGED <<fs, opt, vr, result, output, exit_code, d_text, d_out>>

\* the steps of a caller's calls: validate entered with one of a few argument
\* lists, each tool not installed (or timing out) or printing one line
NextCalls ==
    \/ \E a \in {<<"a.clj", None, FALSE>>, <<"a.clj", DIALECT_RACKET, FALSE>>,
                 <<"a.clj", DIALECT_COMMON_LISP, FALSE>>, <<"a.clj", DIALECT_ELISP, FALSE>>,
                 <<"a.clj", "fortran", FALSE>>, <<"a.clj", None, TRUE>>,
                 <<"zz.clj", None, FALSE>>},
          keep \in BOOLEAN : Call(a[1], a[2], a[3], keep)
    \/ Validate
    \/ \E proc \in {p \in KondoProcs :
                       \/ p.kind = "not_found"
                       \/ p.out = "object" /\ Len(p.doc.findings) = 1
                          /\ p.doc.findings[1]["filename"] = "b.clj"} : RunCljKondo(proc)
    \/ \E proc \in {p \in JokerProcs :
                       \/ p.kind = "timeout"
                       \/ StartsAt(p.stderr, 1, "b.clj:") /\ Len(Lines(p.stderr)) = 1} :
          RunJoker(<<proc>>)
    \/ \E proc \in {p \in RacoVersionProcs : p.kind \in {"ran", "not_found"}} :
          SchemeCheckRaco(proc)
    \/ \E proc \in {p \in RacoExpandProcs : p.kind = "ran" /\ p.stderr = ""} :
          RunRacoExpand(proc)
    \/ \E proc \in {p \in RacoReviewProcs :
                       StartsAt(p.stdout, 1, "b.rkt:4:") /\ Len(Lines(p.stdout)) = 1} :
          RunRacoReview(proc)
    \/ \E proc \in {p \in RacoWarnProcs : p.kind = "not_found"} : RunRacoWarn(proc)
    \/ \E proc \in {p \in FallbackProcs :
                       StartsAt(p.stderr, 1, "Unbound") /\ Len(Lines(p.stderr)) = 1} :
          RunFallback(proc)
    \/ \E proc \in {p \in SblintProcs :
                       \/ p.kind \in {"not_found", "timeout"}
                       \/ StartsAt(p.stdout, 1, "a.lisp:3:") /\ Len(Lines(p.stdout)) = 1} :
          RunSblint(proc)
    \/ \E proc \in {p \in SbclProcs : p.returncode = 0 /\ p.stderr # ""} : RunSbcl(proc)
    \/ \E env \in {e \in PythonEnvs : ~e.library \/ Len(e.tree.children) = 2} :
          TreeSitterPython(env)
    \/ ValidateMerge

SpecCalls == Init /\ [][NextCalls]_vars

-----------------------------------------------------------------------------
(* Calls do not share state                                                 *)

\* the running call of validate has returned, and the call the caller
\* remembers had the same arguments and its tools did the same
SameCallReturnedAgain ==
    /\ entry = "validate"
    /\ pc = "returned"
    /\ earlier.kept # <<>>
    /\ earlier.kept[1].args = earlier.args
    /\ earlier.kept[1].spawned = spawned

\* C20: two calls of validate with the same arguments, on the same
\* filesystem, whose tools did the same, return equal results, whatever calls
\* ran before or between them and whatever those calls left behind.
C20_CallsAreIndependent ==
    SameCallReturnedAgain => result = earlier.kept[1].result

\* C20 witness: the third call repeats the first, which found an error and
\* listed clj-kondo and joker; the call between them was another one
C20_RepeatedAfterAnotherCallSeen ==
    /\ SameCallReturnedAgain
    /\ earlier.made = 3
    /\ earlier.args = <<"a.clj", None, FALSE>>
    /\ earlier.last = <<"a.clj", DIALECT_COMMON_LISP, FALSE>>
    /\ Len(result.findings) > 0
    /\ result.summary.tools_used = <<"clj-kondo", "joker">>

-----------------------------------------------------------------------------
(* The sequence of tools within one adapter call                            *)

\* how many times the tool was spawned in this call
TimesSpawned(tool) == Cardinality({i \in 1..Len(spawned) : spawned[i].tool = tool})

\* the call of the adapter has ended: it returned or an exception left it
AdapterEnded(name) ==
    /\ \E i \in 1..Len(calls) : calls[i] = name
    /\ pc \in {"returned", "raised", "merge", "crash", "format", "exit", "done"}

\* C21: within one adapter call each external tool is invoked at most once
\* per file, never again after a failure or a timeout, and a tool that was
\* not found, failed or timed out does not keep the tools after it in the
\* adapter's sequence from being invoked: when the call ends, every tool of
\* the sequence the adapter's options select has been invoked.
C21_NoRetryAndNoToolSkipped ==
    /\ \A tool \in {"clj-kondo", "raco version", "raco expand", "raco review", "raco warn",
                    "sblint", "sbcl"} \cup SchemeDialects : TimesSpawned(tool) <= 1
    /\ TimesSpawned("joker") <= Len(JokerFiles(fs, target))
    /\ AdapterEnded("validate_clojure") =>
           /\ TimesSpawned("clj-kondo") = 1
           /\ opt.use_joker => TimesSpawned("joker") >= 1
    /\ AdapterEnded("validate_common_lisp") =>
           /\ TimesSpawned("sblint") = 1
           /\ (opt.use_sbcl /\ IsFile(fs, target)) => TimesSpawned("sbcl") = 1
    /\ (AdapterEnded("validate_scheme") /\ RanToEnd("raco version")) =>
           /\ TimesSpawned("raco expand") = 1
           /\ TimesSpawned("raco review") = 1
           /\ TimesSpawned("raco warn") = 1
    /\ (AdapterEnded("validate_scheme") /\ ~RanToEnd("raco version")
          /\ opt.scheme_dialect \in FallbackValidators) =>
           TimesSpawned(opt.scheme_dialect) = 1

\* C21 seen failing: sblint timed out, the exception of C1 left the adapter,
\* and sbcl, selected and applicable, was never invoked
C21_SbclSkippedAfterSblintTimeout ==
    /\ AdapterEnded("validate_common_lisp")
    /\ opt.use_sbcl /\ IsFile(fs, target)
    /\ Len(spawned) = 1
    /\ spawned[1].tool = "sblint" /\ spawned[1].kind = "timeout"
    /\ raised = "KeyError: 'severity'"
    /\ TimesSpawned("sbcl") = 0

-----------------------------------------------------------------------------
(* The universal adapter's two parsers                                      *)

\* the universal adapter preferred the in-process parser, which was
\* unavailable: the library or the grammar missing, or the file type
\* unsupported
PythonUnavailable ==
    /\ opt.use_python
    /\ Len(spawned) >= 1
    /\ spawned[1].tool = "validate_with_python_library"
    /\ spawned[1].kind = "unavailable"
    /\ \/ ~spawned[1].proc.env.library
       \/ ~spawned[1].proc.env.grammar
       \/ detect_grammar(target) = None

\* C22: when the universal adapter prefers the in-process parser and it is
\* unavailable, the adapter falls back to the external tree-sitter process:
\* it looks for the CLI, runs it when available and takes its findings from
\* the tree it printed, and records a warning when the CLI is unavailable too.
C22_FallsBackToTheCli ==
    (AdapterReturned("validate_tree_sitter") /\ PythonUnavailable) =>
        /\ TimesSpawned("tree-sitter --version") = 1
        /\ RanToEnd("tree-sitter --version") =>
               /\ TimesSpawned("tree-sitter parse") = 1
               /\ RanToEnd("tree-sitter parse") =>
                      \E i \in 1..Len(spawned) :
                          /\ spawned[i].tool = "tree-sitter parse"
                          /\ vr.findings = parse_tree_sitter_output[spawned[i].proc.stdout, target]
        /\ ~RanToEnd("tree-sitter --version") =>
               /\ TimesSpawned("tree-sitter parse") = 0
               /\ WarningsOf(vr) # <<>>

\* C22 seen failing: the Python library is missing, the adapter returned
\* without looking for the CLI, and the library's error record is its finding
C22_NoFallbackSeen ==
    /\ AdapterReturned("validate_tree_sitter")
    /\ PythonUnavailable
    /\ ~spawned[1].proc.env.library
    /\ Len(spawned) = 1
    /\ Len(vr.findings) = 1
    /\ DOMAIN vr.findings[1] = {"error"}
    /\ WarningsOf(vr) = <<>>

-----------------------------------------------------------------------------
(* The Scheme/Racket adapter's sequence                                     *)

\* the external tools the Scheme/Racket adapter invoked, in order
SchemeToolsInvoked ==
    SelectSeq(calls, LAMBDA c : c \in {"raco version", "raco expand", "raco review",
                                       "raco warn"} \cup SchemeDialects \cup FallbackValidators)

\* the raco half of C23: raco is looked for first unless disabled; when it is
\* available the three sub-tools run in order and no interpreter does, and
\* every finding of raco expand is an error
RacoHalf ==
    /\ opt.use_raco => (SchemeToolsInvoked # <<>> /\ SchemeToolsInvoked[1] = "raco version")
    /\ ~opt.use_raco => TimesSpawned("raco version") = 0
    /\ RanToEnd("raco version") =>
           /\ SchemeToolsInvoked = <<"raco version", "raco expand", "raco review", "raco warn">>
           /\ \A i \in 1..Len(vr.findings) :
                  vr.findings[i].tool = "raco-expand" => vr.findings[i].severity = "error"

-----------------------------------------------------------------------------
(* The Common Lisp adapter's secondary tool                                 *)

\* C24: the Common Lisp adapter runs the SBCL compile check if and only if
\* use_sbcl is set and the target is a single regular file; for a directory
\* only sblint is invoked and tools_used never contains sbcl.
C24_SbclIffFlagAndFile ==
    /\ (\E i \in 1..Len(calls) : calls[i] = "validate_common_lisp") =>
           (TimesSpawned("sbcl") > 0 => (opt.use_sbcl /\ IsFile(fs, target)))
    /\ AdapterEnded("validate_common_lisp") =>
           /\ (opt.use_sbcl /\ IsFile(fs, target)) => TimesSpawned("sbcl") = 1
           /\ IsDir(fs, target) =>
                  /\ \A i \in 1..Len(spawned) : spawned[i].tool = "sblint"
                  /\ "summary" \in DOMAIN vr => ~ListedTool("sbcl")

\* C24 seen failing: use_sbcl is set and the target is a file, but sblint
\* failed with an error other than not-found and the exception of C1 ended
\* the adapter before the SBCL check
C24_SbclNotRunOnFile ==
    /\ AdapterEnded("validate_common_lisp")
    /\ opt.use_sbcl
    /\ IsFile(fs, target)
    /\ RaisePc = pc
    /\ \E i \in 1..Len(spawned) : spawned[i].tool = "sblint" /\ spawned[i].kind = "oserror"
    /\ TimesSpawned("sbcl") = 0

\* the list the runner of the tool returned in this call: run_sblint's or
\* run_sbcl_compile_check's, empty when the tool was not invoked
ReportedBy(tool) ==
    LET K == {i \in 1..Len(spawned) : spawned[i].tool = tool}
        Of(proc) == IF tool = "sblint" THEN run_sblint[proc, target]
                    ELSE run_sbcl_compile_check[proc, target]
    IN  IF K = {} THEN <<>> ELSE Of(spawned[CHOOSE i \in K : TRUE].proc)

\* C25: in the result of the Common Lisp adapter no sbcl finding has the
\* message of an sblint finding, wherever the two are; every sblint finding is
\* kept, and an sbcl finding whose message differs from every sblint message
\* is kept.
C25_SecondaryDroppedByMessage ==
    AdapterReturned("validate_common_lisp") =>
        LET fnd == vr.findings
            primary == ReportedBy("sblint")
            secondary == ReportedBy("sbcl")
            Kept(f) == \E i \in 1..Len(fnd) : fnd[i] = f
        IN  /\ \A i, j \in 1..Len(fnd) :
                   (fnd[i].tool = "sbcl" /\ fnd[j].tool = "sblint")
                       => fnd[i].message # fnd[j].message
            /\ \A k \in 1..Len(primary) : "error" \notin DOMAIN primary[k] => Kept(primary[k])
            /\ \A k \in 1..Len(secondary) :
                   ("error" \notin DOMAIN secondary[k]
                      /\ \A m \in 1..Len(primary) :
                             "error" \in DOMAIN primary[m]
                             \/ primary[m].message # secondary[k].message)
                       => Kept(secondary[k])
            /\ Cardinality({i \in 1..Len(fnd) : fnd[i].tool = "sblint"})
                   = Cardinality({k \in 1..Len(primary) : "error" \notin DOMAIN primary[k]})

\* C25 witness: sblint and sbcl reported the same message at different
\* positions, sbcl another one too; the result has sblint's finding and the
\* other sbcl finding
C25_SameMessageFromBothSeen ==
    /\ AdapterReturned("validate_common_lisp")
    /\ \E k \in 1..Len(ReportedBy("sblint")), m \in 1..Len(ReportedBy("sbcl")) :
           /\ "error" \notin DOMAIN ReportedBy("sblint")[k]
           /\ "error" \notin DOMAIN ReportedBy("sbcl")[m]
           /\ ReportedBy("sblint")[k].message = ReportedBy("sbcl")[m].message
           /\ ReportedBy("sblint")[k].line # ReportedBy("sbcl")[m].line
           /\ Cardinality({i \in 1..Len(vr.findings) :
                              vr.findings[i].message = ReportedBy("sblint")[k].message}) = 1
    /\ \E i \in 1..Len(vr.findings) : vr.findings[i].tool = "sbcl"

-----------------------------------------------------------------------------
(* The output parsers of the Common Lisp adapter                            *)

\* C26: every finding of parse_sblint_output has the severity its message
\* calls for, letter case ignored: error when the message holds "error",
\* "undefined" or "unbound" (whether or not it also holds a warning word),
\* otherwise warning when it holds "warning" or "style-warning", otherwise
\* info.
C26_SblintSeverityByKeyword ==
    pc = "p_sblint" =>
        \A i \in 1..Len(d_out) :
            LET m == Lower(d_out[i].message)
                error_word == \E w \in {"error", "undefined", "unbound"} : Contains(m, w)
                warning_word == \E w \in {"warning", "style-warning"} : Contains(m, w)
            IN  /\ error_word => d_out[i].severity = "error"
                /\ ~error_word /\ warning_word => d_out[i].severity = "warning"
                /\ ~error_word /\ ~warning_word => d_out[i].severity = "info"

\* C26 witness: a line whose message holds a warning word and, capitalised,
\* an error word was parsed and its finding is an error
C26_BothKeywordsSeen ==
    /\ pc = "p_sblint"
    /\ d_text = "a.lisp:4:2: warning: Unbound function F"
    /\ Len(d_out) = 1
    /\ d_out[1].severity = "error"
    /\ d_out[1].message = "warning: Unbound function F"

\* the blocks of an sbcl output, told without the loop: a block starts at
\* each line holding a keyword and runs up to the line before the next such
\* line; BlocksOf gives, for the lines ls, the finding of each block that has
\* one, in the order of the blocks
BlocksOf(ls, filename) ==
    LET Keyword(i) ==
            \E kw \in {"ERROR", "WARNING", "STYLE-WARNING", "NOTE", "debugger invoked"} :
                Contains(ls[i], kw)
        K == {i \in 1..Len(ls) : Keyword(i)}
        Last(k) == IF \E j \in K : j > k
                   THEN (CHOOSE j \in K : j > k /\ \A h \in K : h > k => j <= h) - 1
                   ELSE Len(ls)
        Severity(k) ==
            IF Contains(ls[k], "ERROR") \/ Contains(ls[k], "debugger invoked") THEN "error"
            ELSE IF Contains(ls[k], "WARNING") THEN "warning"
            ELSE "info"
        FindingOf(k) ==
            parse_sbcl_error_block(Join(SubSeq(ls, k, Last(k)), " "), filename, Severity(k))
        B[i \in 0..Len(ls)] ==
            IF i = 0 THEN <<>>
            ELSE IF i \in K /\ "none" \notin DOMAIN FindingOf(i) THEN Append(B[i - 1], FindingOf(i))
            ELSE B[i - 1]
    IN  B[Len(ls)]

\* C27: parse_sbcl_output returns one finding for each block whose cleaned
\* message is not empty, in block order, where a block starts at every line
\* holding ERROR, WARNING, STYLE-WARNING, NOTE or "debugger invoked" and
\* takes in the lines up to the next such line; lines before the first
\* keyword line are in no block; a block's severity is error when its first
\* line holds ERROR or "debugger invoked", else warning when it holds WARNING
\* (a STYLE-WARNING line does), else info.
C27_SbclBlocks ==
    pc = "p_sbcl" => d_out = BlocksOf(Split(d_text, "\n"), target)

\* C27 witness: an output whose first line holds no keyword and whose second
\* is a STYLE-WARNING line was parsed: one finding, a warning, and nothing of
\* the first line in it
C27_StyleWarningAfterStrayLineSeen ==
    /\ pc = "p_sbcl"
    /\ d_text = "  in form (foo)\nSTYLE-WARNING: redefining F"
    /\ d_out = <<[file |-> "a.lisp", line |-> 0, col |-> 0, severity |-> "warning",
                  message |-> "STYLE-WARNING: redefining F", tool |-> "sbcl"]>>

-----------------------------------------------------------------------------
(* The walk over the parse tree                                             *)

\* the nodes of a parse tree in pre-order: the node, then the nodes of each
\* of its children's subtrees, the children taken in order
RECURSIVE PreOrder(_)
PreOrder(node) ==
    LET Below[i \in 0..Len(node.children)] ==
            IF i = 0 THEN <<>> ELSE Below[i - 1] \o PreOrder(node.children[i])
    IN  <<node>> \o Below[Len(node.children)]

\* what the nodes, in the order given, are to be reported as: for a node of
\* type ERROR its severity and its four positions, each one more than the
\* node's 0-indexed row or column; for a missing node its severity and its
\* start position; a node that is both gives both
ReportsOf(nodes) ==
    LET Of(n) ==
            (IF n.type = "ERROR"
             THEN <<[severity |-> "error",
                     line |-> n.start_point[1] + 1, col |-> n.start_point[2] + 1,
                     end_line |-> n.end_point[1] + 1, end_col |-> n.end_point[2] + 1]>>
             ELSE <<>>)
            \o (IF n.is_missing
                THEN <<[severity |-> "warning",
                        line |-> n.start_point[1] + 1, col |-> n.start_point[2] + 1]>>
                ELSE <<>>)
        R[i \in 0..Len(nodes)] == IF i = 0 THEN <<>> ELSE R[i - 1] \o Of(nodes[i])
    IN  R[Len(nodes)]

\* the findings agree with the reports: as many, and each finding has the
\* values of its report
AgreeWith(findings, reports) ==
    /\ Len(findings) = Len(reports)
    /\ \A i \in 1..Len(reports) :
           \A k \in DOMAIN reports[i] :
               k \in DOMAIN findings[i] /\ findings[i][k] = reports[i][k]

\* C28: when the Python library has parsed the file, the findings are those of
\* a pre-order walk over every node of the tree: an error for each node of
\* type ERROR, a warning for each node flagged missing, both for a node that
\* is both, so as many findings as there are ERROR nodes and missing nodes
\* together; line and col are the node's start row and column plus 1, and an
\* error's end_line and end_col the node's end row and column plus 1.
C28_OneFindingPerErrorAndMissingNode ==
    (AdapterReturned("validate_tree_sitter") /\ RanToEnd("validate_with_python_library")) =>
        /\ AgreeWith(vr.findings, ReportsOf(PreOrder(spawned[Len(spawned)].proc.env.tree)))
        /\ Len(vr.findings) =
               LET nodes == PreOrder(spawned[Len(spawned)].proc.env.tree)
               IN  Cardinality({i \in 1..Len(nodes) : nodes[i].type = "ERROR"})
                   + Cardinality({i \in 1..Len(nodes) : nodes[i].is_missing})

\* C28 witness: the tree's root is of type ERROR and flagged missing, spanning
\* (0,0)-(1,11), and the walk gave the error 1:1 to 2:12 and then the warning
\* at 1:1
C28_ErrorAndMissingNodeSeen ==
    /\ AdapterReturned("validate_tree_sitter")
    /\ RanToEnd("validate_with_python_library")
    /\ spawned[Len(spawned)].proc.env.tree.type = "ERROR"
    /\ spawned[Len(spawned)].proc.env.tree.is_missing
    /\ Len(vr.findings) = 2
    /\ vr.findings[1].severity = "error"
    /\ <<vr.findings[1].line, vr.findings[1].col>> = <<1, 1>>
    /\ <<vr.findings[1].end_line, vr.findings[1].end_col>> = <<2, 12>>
    /\ vr.findings[2].severity = "warning"
    /\ <<vr.findings[2].line, vr.findings[2].col>> = <<1, 1>>

-----------------------------------------------------------------------------
(* The Clojure adapter when its primary tool fails                          *)

\* clj-kondo was spawned in this run and run_clj_kondo returned an error for
\* it: not found, timed out, another exception, or output that is not JSON
PrimaryFailed ==
    \E i \in 1..Len(spawned) :
        /\ spawned[i].tool = "clj-kondo"
        /\ "error" \in DOMAIN run_clj_kondo(spawned[i].proc)

\* the findings joker's lines parse to, over the spawns of joker that ran, in
\* the order of the spawns
JokerFindings ==
    LET J[i \in 0..Len(spawned)] ==
            IF i = 0 THEN <<>>
            ELSE IF spawned[i].tool = "joker" /\ spawned[i].kind = "ran"
                                              /\ spawned[i].proc.stderr # ""
            THEN J[i - 1] \o parse_joker_output[spawned[i].proc.stderr]
            ELSE J[i - 1]
    IN  J[Len(spawned)]

\* C29 for the findings jf of joker: the result has them all and no other,
\* counts them and nothing else, and its warnings are the primary's error
\* followed by what joker's failure, if any, added
PrimaryFailureKept(jf) ==
    /\ Len(vr.findings) = Len(jf)
    /\ \A i \in 1..Len(jf) :
           Cardinality({j \in 1..Len(vr.findings) : vr.findings[j] = jf[i]})
               = Cardinality({j \in 1..Len(jf) : jf[j] = jf[i]})
    /\ vr.summary.total_errors = CountSeverity(jf, "error")
    /\ vr.summary.total_warnings = Len(jf) - CountSeverity(jf, "error")
    /\ \A i \in 1..Len(vr.summary.tools_used) : vr.summary.tools_used[i] # "clj-kondo"
    /\ Len(WarningsOf(vr)) >= 1
    /\ WarningsOf(vr)[1] = run_clj_kondo(spawned[1].proc).error
    /\ Len(WarningsOf(vr)) =
           1 + Cardinality({i \in 1..Len(spawned) :
                               spawned[i].tool = "joker" /\ spawned[i].kind # "ran"})

\* C29: when the Clojure adapter's primary tool fails, the result has no
\* finding and no count of clj-kondo's and has its error as the first
\* warning; joker, when it is enabled, is still run on every file it is to
\* lint up to its own first failure; every finding joker reported is kept
\* and counted; and a warning of joker's comes after the primary's.
C29_PrimaryFailureLeavesSecondary ==
    (ClojureReturned /\ PrimaryFailed) =>
        /\ PrimaryFailureKept(JokerFindings)
        /\ ~opt.use_joker => TimesSpawned("joker") = 0
        /\ opt.use_joker =>
               \/ TimesSpawned("joker") = Len(JokerFiles(fs, target))
               \/ /\ TimesSpawned("joker") \in 1..Len(JokerFiles(fs, target))
                  /\ spawned[Len(spawned)].kind # "ran"

\* C29 witness: clj-kondo was not found, joker then printed a line and, on
\* the next file, timed out: the finding is kept and the two warnings are
\* there in that order
C29_JokerAfterFailedKondoSeen ==
    /\ ClojureReturned
    /\ PrimaryFailed
    /\ spawned[1].kind = "not_found"
    /\ Len(vr.findings) >= 1
    /\ \A i \in 1..Len(vr.findings) : vr.findings[i].tool = "joker"
    /\ WarningsOf(vr) = <<"clj-kondo not found", "joker timed out">>

-----------------------------------------------------------------------------
(* The exit code of a fatal result                                          *)

\* validate returned one of its two fatal results: the target does not
\* exist, or no branch takes the dialect
FatalResult ==
    /\ "error" \in DOMAIN result
    /\ "detected_dialect" \notin DOMAIN result

\* C30: whenever validate returned a fatal result (target not found, or
\* unsupported dialect), the command line ends with exit code 0, the code of
\* a clean validation.
C30_FatalResultExitsZero ==
    (entry = "main" /\ pc = "done" /\ FatalResult) => exit_code = EXIT_SUCCESS

\* C30 witness: the target does not exist, the result was printed as JSON and
\* the command line ended with exit code 0
C30_FatalResultExitZeroSeen ==
    /\ entry = "main" /\ pc = "done"
    /\ FatalResult
    /\ ~Exists(fs, target)
    /\ result.summary.total_errors = 0 /\ result.summary.total_warnings = 0
    /\ output[1].format = "json"
    /\ raised = ""
    /\ exit_code = EXIT_SUCCESS

====
